---- MODULE Spec2Model ----
(***************************************************************************)
(* where-money-go: import reconciliation, payee normalisation and the      *)
(* categorization / bulk-apply controller, modelled from the sources.      *)
(*                                                                         *)
(* Strings are sequences of one-character strings, so that the regular     *)
(* expressions of the code act on them character by character.             *)
(***************************************************************************)
EXTENDS Integers, Sequences, FiniteSets, TLC

VARIABLES
    payeeArg,           \* extractPayeePattern: the argument `payee`
    patternRes,         \* extractPayeePattern: the returned `pattern` (NoResult before the call)
    rulesArg,           \* applyRenamingRules: the argument `rules`
    renamed,            \* applyRenamingRules: the returned string (NoResult before the call)
    rawData,            \* App state: the rows of the uploaded file
    transactions,       \* App state: the working copy
    duplicateDetection, \* localStorage 'duplicate-detection'
    rules,              \* localStorage 'payee-renaming-rules'
    showRuleDialog,     \* TransactionList state: NoDialog or [payee, category, hasRule]
    store,              \* the persisted transactions, by id
    calls,              \* storage.saveTransactions calls awaiting completion
    rejected,           \* the operations whose save promise was rejected
    now,                \* the value Date.now() returned last
    yamlSource,         \* what fetching and parsing /categories.yaml gives in this session
    categories,         \* App state: the flat category list
    loading,            \* App state: TRUE until init has run
    initAt,             \* App: the step init stands at ("rejected": its promise was rejected)
    loadFailed,         \* loadData has caught and logged an error of storage.getTransactions
    dateRange,          \* Analytics state
    selectedCategories, \* Analytics state
    selectedPayees,     \* Analytics state
    editingPayee,       \* TransactionList state: the id of the row being renamed, <<>> for null
    editPayeeValue,     \* TransactionList state: the text of the payee editor
    db                  \* server: the rows of the table transactions, by id

appVars == <<rawData, transactions, duplicateDetection, rules, showRuleDialog,
             store, calls, rejected, now>>

extractVars == <<payeeArg, patternRes>>

ruleVars == <<rulesArg, renamed>>

taxonomyVars == <<yamlSource, categories, loading, initAt, loadFailed>>

analyticsVars == <<dateRange, selectedCategories, selectedPayees>>

editVars == <<editingPayee, editPayeeValue>>

\* what the handlers of Analytics, the payee editor and the server hold
screenVars == <<analyticsVars, editVars, db>>

\* what the handlers of the import and of the categorization do not touch
pureVars == <<extractVars, ruleVars, taxonomyVars, screenVars>>

vars == <<payeeArg, patternRes, rulesArg, renamed, rawData, transactions, duplicateDetection, rules,
          showRuleDialog, store, calls, rejected, now, yamlSource, categories, loading,
          initAt, loadFailed, dateRange, selectedCategories, selectedPayees,
          editingPayee, editPayeeValue, db>>

NoResult == <<"<none>">>

\* no call of applyRenamingRules is under way
IdleRules == rulesArg = <<>> /\ renamed = NoResult

(***************************************************************************)
(* Characters and character classes                                        *)
(***************************************************************************)
Digits == {"0", "1", "2", "3", "4", "5", "6", "7", "8", "9"}

WhiteSpace == {" ", "\t"}

UpperCase == <<"A", "B", "C", "D", "E", "F", "G", "H", "I", "J", "K", "L", "M",
               "N", "O", "P", "Q", "R", "S", "T", "U", "V", "W", "X", "Y", "Z">>

LowerCase == <<"a", "b", "c", "d", "e", "f", "g", "h", "i", "j", "k", "l", "m",
               "n", "o", "p", "q", "r", "s", "t", "u", "v", "w", "x", "y", "z">>

\* String.prototype.toLowerCase on one character
toLowerCaseChar(c) ==
    IF \E i \in DOMAIN UpperCase : UpperCase[i] = c
    THEN LowerCase[CHOOSE i \in DOMAIN UpperCase : UpperCase[i] = c]
    ELSE c

toLowerCase(s) == [i \in DOMAIN s |-> toLowerCaseChar(s[i])]

Min(a, b) == IF a < b THEN a ELSE b

\* String.prototype.trim
RECURSIVE TrimLeft(_)
TrimLeft(s) ==
    IF s # <<>> /\ Head(s) \in WhiteSpace THEN TrimLeft(Tail(s)) ELSE s

RECURSIVE TrimRight(_)
TrimRight(s) ==
    IF s # <<>> /\ s[Len(s)] \in WhiteSpace
    THEN TrimRight(SubSeq(s, 1, Len(s) - 1)) ELSE s

trim(s) == TrimRight(TrimLeft(s))

(***************************************************************************)
(* Regular expressions.  A compiled expression is a record                 *)
(*   [ok, anchorStart, anchorEnd, ignoreCase, elems]                       *)
(* where elems is a sequence of quantified character classes               *)
(*   [cls, min, max, star]   (star: no upper limit, as for * and +).       *)
(* A class is [kind |-> "digit" | "space" | "any" | "set", chars |-> S].   *)
(* Matching is the backtracking, greedy, leftmost matching of RegExp.      *)
(***************************************************************************)
ClsDigit == [kind |-> "digit", chars |-> {}]
ClsSpace == [kind |-> "space", chars |-> {}]
ClsAny == [kind |-> "any", chars |-> {}]
ClsSet(S) == [kind |-> "set", chars |-> S]

Q(cls, lo, hi) == [cls |-> cls, min |-> lo, max |-> hi, star |-> FALSE]
AtLeast(cls, lo) == [cls |-> cls, min |-> lo, max |-> lo, star |-> TRUE]

InClass(c, cls, ignoreCase) ==
    CASE cls.kind = "digit" -> c \in Digits
      [] cls.kind = "space" -> c \in WhiteSpace
      [] cls.kind = "any" -> c # "\n"
      [] OTHER -> IF ignoreCase
                  THEN \E d \in cls.chars : toLowerCaseChar(d) = toLowerCaseChar(c)
                  ELSE c \in cls.chars

\* how many characters of s, from index i on, lie in cls (at most cap unless star)
RECURSIVE RunLength(_, _, _, _, _, _)
RunLength(cls, ic, s, i, star, cap) ==
    IF i > Len(s) \/ (~star /\ cap = 0) \/ ~InClass(s[i], cls, ic) THEN 0
    ELSE 1 + RunLength(cls, ic, s, i + 1, star, cap - 1)

\* Match elems[k..] of re at index i of s: the index after the match, 0 when none.
RECURSIVE MatchFrom(_, _, _, _), TryCount(_, _, _, _, _)
MatchFrom(re, k, s, i) ==
    IF k > Len(re.elems)
    THEN IF re.anchorEnd /\ i # Len(s) + 1 THEN 0 ELSE i
    ELSE LET e == re.elems[k]
             avail == RunLength(e.cls, re.ignoreCase, s, i, e.star, e.max)
         IN  IF avail < e.min THEN 0 ELSE TryCount(re, k, s, i, avail)

TryCount(re, k, s, i, n) ==
    LET r == MatchFrom(re, k + 1, s, i + n)
    IN  IF r # 0 THEN r
        ELSE IF n > re.elems[k].min THEN TryCount(re, k, s, i, n - 1)
        ELSE 0

\* The leftmost match starting at index pos or later: [start, end), or start = 0.
RECURSIVE Exec(_, _, _)
Exec(re, s, pos) ==
    IF pos > Len(s) + 1 \/ (re.anchorStart /\ pos > 1)
    THEN [start |-> 0, end |-> 0]
    ELSE LET e == MatchFrom(re, 1, s, pos)
         IN  IF e # 0 THEN [start |-> pos, end |-> e] ELSE Exec(re, s, pos + 1)

\* RegExp.prototype.test (no g flag: the search starts at index 0)
test(re, s) == Exec(re, s, 1).start # 0

\* the grave accent, which a TLA+ string cannot hold, as a character of its own
GraveAccent == "<grave>"

\* GetSubstitution: the replacement text for the match [m.start, m.end) of s.  $$ is a
\* $, $& the match, $<grave> the text before it, $' the text after it; the expressions
\* of the model have no groups, so a $ before anything else stands for itself.
RECURSIVE GetSubstitution(_, _, _, _)
GetSubstitution(repl, i, s, m) ==
    IF i > Len(repl) THEN <<>>
    ELSE IF repl[i] = "$" /\ i < Len(repl) /\ repl[i + 1] \in {"$", "&", GraveAccent, "'"}
    THEN (CASE repl[i + 1] = "$" -> <<"$">>
            [] repl[i + 1] = "&" -> SubSeq(s, m.start, m.end - 1)
            [] repl[i + 1] = GraveAccent -> SubSeq(s, 1, m.start - 1)
            [] OTHER -> SubSeq(s, m.end, Len(s)))
         \o GetSubstitution(repl, i + 2, s, m)
    ELSE <<repl[i]>> \o GetSubstitution(repl, i + 1, s, m)

\* String.prototype.replace with a g-flag expression and a replacement string
RECURSIVE ReplaceFrom(_, _, _, _)
ReplaceFrom(re, s, repl, pos) ==
    LET m == Exec(re, s, pos)
    IN  IF m.start = 0 THEN SubSeq(s, pos, Len(s))
        ELSE SubSeq(s, pos, m.start - 1) \o GetSubstitution(repl, 1, s, m) \o
             (IF m.end > m.start THEN ReplaceFrom(re, s, repl, m.end)
              ELSE IF m.start <= Len(s)
                   THEN <<s[m.start]>> \o ReplaceFrom(re, s, repl, m.start + 1)
                   ELSE <<>>)

replace(s, re, repl) == ReplaceFrom(re, s, repl, 1)

(***************************************************************************)
(* extractPayeePattern (utils/payeeRules)                                  *)
(***************************************************************************)
DD == Q(ClsDigit, 2, 2)
YY == Q(ClsDigit, 2, 4)
YYYY == Q(ClsDigit, 4, 4)
Dash == Q(ClsSet({"-"}), 1, 1)
Slash == Q(ClsSet({"/"}), 1, 1)
Spaces == AtLeast(ClsSpace, 0)

AtEnd(elems) ==
    [ok |-> TRUE, anchorStart |-> FALSE, anchorEnd |-> TRUE, ignoreCase |-> TRUE,
     elems |-> elems]

\* /\s*[&\/]\d{2}-\d{2}-\d{2,4}\s*$/gi
ReSepDate == AtEnd(<<Spaces, Q(ClsSet({"&", "/"}), 1, 1), DD, Dash, DD, Dash, YY, Spaces>>)
\* /\s*\d{2}-\d{2}-\d{2,4}\s*$/gi
ReDashDate == AtEnd(<<Spaces, DD, Dash, DD, Dash, YY, Spaces>>)
\* /\s*\d{4}-\d{2}-\d{2}\s*$/gi
ReIsoDate == AtEnd(<<Spaces, YYYY, Dash, DD, Dash, DD, Spaces>>)
\* /\s*\d{2}\/\d{2}\/\d{2,4}\s*$/gi
ReSlashDate == AtEnd(<<Spaces, DD, Slash, DD, Slash, YY, Spaces>>)

extractPayeePattern(payee) ==
    trim(replace(replace(replace(replace(payee,
        ReSepDate, <<>>), ReDashDate, <<>>), ReIsoDate, <<>>), ReSlashDate, <<>>))

(***************************************************************************)
(* new RegExp(pattern, flags) for the patterns of renaming rules: literals, *)
(* \-escapes, ., the quantifiers * + ?, a leading ^ and a closing $.  An    *)
(* unescaped ( ) or [, a quantifier with nothing to repeat and a closing \  *)
(* are syntax errors (ok = FALSE).  The patterns of the model stay inside   *)
(* this fragment.                                                           *)
(***************************************************************************)
Quantifiers == {"*", "+", "?"}

Quantified(cls, q) ==
    CASE q = "*" -> AtLeast(cls, 0)
      [] q = "+" -> AtLeast(cls, 1)
      [] q = "?" -> Q(cls, 0, 1)
      [] OTHER -> Q(cls, 1, 1)

EscapeClass(c) ==
    CASE c = "d" -> ClsDigit
      [] c = "s" -> ClsSpace
      [] OTHER -> ClsSet({c})

SyntaxError ==
    [ok |-> FALSE, anchorStart |-> FALSE, anchorEnd |-> FALSE, ignoreCase |-> FALSE,
     elems |-> <<>>]

\* the atoms of p from index i on, after the elements acc
RECURSIVE ParseAtoms(_, _, _)
ParseAtoms(p, i, acc) ==
    IF i > Len(p) THEN [ok |-> TRUE, anchorEnd |-> FALSE, elems |-> acc]
    ELSE IF p[i] = "$" /\ i = Len(p) THEN [ok |-> TRUE, anchorEnd |-> TRUE, elems |-> acc]
    ELSE IF p[i] \in Quantifiers \cup {"(", ")", "["} THEN [ok |-> FALSE]
    ELSE IF p[i] = "\\" /\ i = Len(p) THEN [ok |-> FALSE]
    ELSE LET esc == p[i] = "\\"
             cls == IF esc THEN EscapeClass(p[i + 1])
                    ELSE IF p[i] = "." THEN ClsAny
                    ELSE ClsSet({p[i]})
             j == IF esc THEN i + 2 ELSE i + 1
             q == IF j <= Len(p) /\ p[j] \in Quantifiers THEN p[j] ELSE ""
         IN  ParseAtoms(p, IF q = "" THEN j ELSE j + 1, Append(acc, Quantified(cls, q)))

RegExp(pattern, ignoreCase) ==
    LET anchored == pattern # <<>> /\ pattern[1] = "^"
        parsed == ParseAtoms(pattern, IF anchored THEN 2 ELSE 1, <<>>)
    IN  IF ~parsed.ok THEN SyntaxError
        ELSE [ok |-> TRUE, anchorStart |-> anchored, anchorEnd |-> parsed.anchorEnd,
              ignoreCase |-> ignoreCase, elems |-> parsed.elems]

\* str.replace(/[.*+?^${}()|[\]\\]/g, '\\$&')
RegexSpecials == {".", "*", "+", "?", "^", "$", "{", "}", "(", ")", "|", "[", "]", "\\"}

RECURSIVE escapeRegex(_)
escapeRegex(str) ==
    IF str = <<>> THEN <<>>
    ELSE (IF Head(str) \in RegexSpecials THEN <<"\\", Head(str)>> ELSE <<Head(str)>>)
         \o escapeRegex(Tail(str))

\* String.prototype.includes
includes(s, sub) ==
    \E i \in 1..(Len(s) + 1) :
        i + Len(sub) - 1 <= Len(s) /\ SubSeq(s, i, i + Len(sub) - 1) = sub

(***************************************************************************)
(* Payee strings the extraction is exercised on                            *)
(***************************************************************************)
JoesGrill == <<"J", "O", "E", "S", " ", "G", "R", "I", "L", "L">>
JoesGrillAmpSlashDate ==
    JoesGrill \o <<" ", "&", "/", "2", "5", "-", "1", "1", "-", "1", "7">>
JoesGrillDowntown ==
    JoesGrill \o <<" ", "D", "O", "W", "N", "T", "O", "W", "N">>

DateDMY2 == <<"2", "5", "-", "1", "1", "-", "1", "7">>                  \* DD-MM-YY
DateDMY4 == <<"2", "5", "-", "1", "1", "-", "2", "0", "1", "7">>        \* DD-MM-YYYY
DateISO == <<"2", "0", "2", "3", "-", "1", "1", "-", "2", "5">>         \* YYYY-MM-DD
DateSlash2 == <<"2", "5", "/", "1", "1", "/", "1", "7">>                \* DD/MM/YY
DateSlash4 == <<"2", "5", "/", "1", "1", "/", "2", "0", "1", "7">>      \* DD/MM/YYYY

DateShapes == {DateDMY2, DateDMY4, DateISO, DateSlash2, DateSlash4}

BaseTexts == {JoesGrill, JoesGrillDowntown, <<"A", "B">>, <<"a", "b", " ", "c">>,
              <<"S", "H", "O", "P", " ", "7">>, <<"X", "-", "Y">>}

Separators == {<<>>, <<" ">>, <<" ", " ">>, <<"\t">>, <<" ", "&">>, <<" ", "/">>,
               <<" ", "&", "/">>, <<"&">>, <<"/">>}

Trailers == {<<>>, <<" ">>}

Leaders == {<<>>, <<" ">>}

ExtractInputs ==
    { l \o b \o s \o d \o t :
        l \in Leaders, b \in BaseTexts, s \in Separators,
        d \in DateShapes \cup {<<>>}, t \in Trailers }

(***************************************************************************)
(* Coercion of the cells of an uploaded row (handleMappingComplete)        *)
(***************************************************************************)
NaN == [isNaN |-> TRUE, value |-> 0]
Num(v) == [isNaN |-> FALSE, value |-> v]

\* new Date(cell).getTime() on the date cells of the model, in hours since
\* 2024-01-01T00:00Z; two spellings of one instant, and an unparseable cell
newDate(cell) ==
    CASE cell = "2024-01-15" -> Num(336)
      [] cell = "2024-01-15T00:00:00.000Z" -> Num(336)
      [] cell = "2024-01-20" -> Num(456)
      [] OTHER -> NaN

DigitSeq == <<"0", "1", "2", "3", "4", "5", "6", "7", "8", "9">>
DigitVal(c) == (CHOOSE i \in DOMAIN DigitSeq : DigitSeq[i] = c) - 1

RECURSIVE DigitRun(_, _)
DigitRun(s, i) ==
    IF i <= Len(s) /\ s[i] \in Digits THEN <<s[i]>> \o DigitRun(s, i + 1) ELSE <<>>

RECURSIVE DigitsValue(_)
DigitsValue(ds) ==
    IF ds = <<>> THEN 0
    ELSE 10 * DigitsValue(SubSeq(ds, 1, Len(ds) - 1)) + DigitVal(ds[Len(ds)])

\* parseFloat on a string of the characters 0-9 . - ; the value is in hundredths
\* (the cells of the model have at most two decimals)
parseFloat(s) ==
    LET neg == s # <<>> /\ s[1] = "-"
        from == IF neg THEN 2 ELSE 1
        ip == DigitRun(s, from)
        dot == from + Len(ip)
        fp == IF dot <= Len(s) /\ s[dot] = "." THEN DigitRun(s, dot + 1) ELSE <<>>
        f2 == SubSeq(fp \o <<"0", "0">>, 1, 2)
        mag == 100 * DigitsValue(ip) + DigitsValue(f2)
    IN  IF ip = <<>> /\ fp = <<>> THEN NaN
        ELSE Num(IF neg THEN 0 - mag ELSE mag)

\* row[amountIdx]?.replace(/[^0-9.-]/g, '') || '0'
rawAmount(cell) ==
    LET stripped == SelectSeq(cell, LAMBDA c : c \in Digits \cup {".", "-"})
    IN  IF stripped = <<>> THEN <<"0">> ELSE stripped

Unknown == <<"U", "n", "k", "n", "o", "w", "n">>
Undefined == "undefined"

\* the Transaction built from row number index (0-based) at time t
ParseRow(row, index, t) ==
    [id |-> <<t, index>>,
     date |-> newDate(row.date),
     payee |-> IF row.payee = <<>> THEN Unknown ELSE row.payee,
     amount |-> parseFloat(rawAmount(row.amount)),
     category |-> Undefined]

\* .filter(t => !isNaN(t.date.getTime()) && !isNaN(t.amount))
IsValidRow(t) == ~t.date.isNaN /\ ~t.amount.isNaN

Parsed(data, t) ==
    LET all == [i \in DOMAIN data |-> ParseRow(data[i], i - 1, t)]
        valid == SelectSeq(all, IsValidRow)
    IN  [i \in DOMAIN valid |->
            [id |-> valid[i].id, date |-> valid[i].date.value, payee |-> valid[i].payee,
             amount |-> valid[i].amount.value, category |-> valid[i].category]]

(***************************************************************************)
(* Duplicate reconciliation (handleMappingComplete)                        *)
(***************************************************************************)
Range(f) == {f[i] : i \in DOMAIN f}

\* (variant: the date is not compared)
IsSameTransaction_NoDate(existingTxn, newTxn) ==
    /\ existingTxn.payee = newTxn.payee
    /\ existingTxn.amount = newTxn.amount

\* the predicate of transactions.some(...)
IsSameTransaction(existingTxn, newTxn) ==
    /\ existingTxn.date = newTxn.date
    /\ existingTxn.payee = newTxn.payee
    /\ existingTxn.amount = newTxn.amount

DuplicateIndices(parsed, existing, policy) ==
    IF policy = "strict"
    THEN {i \in DOMAIN parsed :
            \E j \in DOMAIN existing : IsSameTransaction(existing[j], parsed[i])}
    ELSE {}

\* parsed.filter((_, index) => !duplicateIndices.has(index))
RECURSIVE WithoutIndices(_, _)
WithoutIndices(seq, drop) ==
    IF seq = <<>> THEN <<>>
    ELSE LET init == WithoutIndices(SubSeq(seq, 1, Len(seq) - 1), drop)
         IN  IF Len(seq) \in drop THEN init ELSE Append(init, seq[Len(seq)])

\* (variant: only the new transactions are kept)
AllTransactions_OnlyNew(existing, newTransactions) == newTransactions

\* [...transactions, ...newTransactions]
AllTransactions(existing, newTransactions) == existing \o newTransactions

(***************************************************************************)
(* The store: storage.saveTransactions is an upsert by id                  *)
(***************************************************************************)
toISOString(instant) == <<"iso", instant>>
fromISOString(iso) == iso[2]

ToStore(txn) == [txn EXCEPT !.date = toISOString(txn.date)]
FromStore(rec) == [rec EXCEPT !.date = fromISOString(rec.date)]

RECURSIVE PutAll(_, _)
PutAll(st, payload) ==
    IF payload = <<>> THEN st
    ELSE LET rec == ToStore(Head(payload))
         IN  PutAll([k \in DOMAIN st \cup {rec.id} |-> IF k = rec.id THEN rec ELSE st[k]],
                    Tail(payload))

EmptyStore == [k \in {} |-> 0]

RemoveAt(seq, i) == SubSeq(seq, 1, i - 1) \o SubSeq(seq, i + 1, Len(seq))

(***************************************************************************)
(* Bounds and the rows of the files a user uploads                         *)
(***************************************************************************)
MaxTxns == 3          \* transactions in the working copy
MaxNow == 2           \* readings of the clock
MaxImportCalls == 1   \* SpecImport: save calls in flight
MaxCatCalls == 1      \* SpecCat: save calls in flight
MaxRules == 1         \* SpecCat: renaming rules

PayeeA1 == <<"A", ".", "B", " ", "2", "5", "-", "1", "1", "-", "1", "7">>
PayeeA2 == <<"A", ".", "B", " ", "2", "6", "/", "1", "1", "/", "1", "7">>
PayeeC == <<"C", "D">>

Amount25 == <<"-", "2", "5", ".", "0", "0">>
Amount25Kr == <<"-", "2", "5", " ", "k", "r">>
Amount30 == <<"-", "3", "0", ".", "0", "0">>

Row(d, p, a) == [date |-> d, payee |-> p, amount |-> a]

RowA == Row("2024-01-15", PayeeA1, Amount25)
RowASpelled == Row("2024-01-15T00:00:00.000Z", PayeeA1, Amount25Kr)  \* RowA's values
RowLater == Row("2024-01-20", PayeeA1, Amount25)                      \* another date
RowA2 == Row("2024-01-15", PayeeA2, Amount25)                         \* another payee
RowA30 == Row("2024-01-15", PayeeA1, Amount30)                        \* another amount
RowBadDate == Row("n/a", PayeeC, Amount25)
RowBadAmount == Row("2024-01-15", PayeeC, <<"-">>)
RowNoAmount == Row("2024-01-20", PayeeC, <<>>)                        \* empty amount cell

Files ==
    { <<RowA, RowLater>>, <<RowA, RowASpelled>>, <<RowBadDate, RowA30>>,
      <<RowBadAmount, RowA2>>, <<RowNoAmount, RowA30>> }

NoDialog == [open |-> FALSE]

(***************************************************************************)
(* Handlers of App                                                         *)
(***************************************************************************)
\* A pending storage.saveTransactions(payload) with what the suspended handler
\* holds: for an import its locals and the number its alert reported (0: no alert)
ImportCall(data, allTransactions, existing, parsed, policy, newTransactions, skipped) ==
    [op |-> "import", payload |-> allTransactions, rawData |-> data,
     existing |-> existing, parsed |-> parsed, policy |-> policy,
     newTransactions |-> newTransactions, skipped |-> skipped]

\* handleFileUpload: a file was chosen and parsed; time has passed
handleFileUpload(data) ==
    /\ showRuleDialog = NoDialog
    /\ rawData' = data
    /\ now' = now + 1
    /\ UNCHANGED <<transactions, duplicateDetection, rules, showRuleDialog, store,
                   calls, rejected>>

\* handleMappingComplete up to its await: t is the value of Date.now()
handleMappingComplete(t) ==
    /\ rawData # <<>>
    /\ showRuleDialog = NoDialog
    /\ LET parsed == Parsed(rawData, t)
           duplicateIndices == DuplicateIndices(parsed, transactions, duplicateDetection)
           newTransactions == WithoutIndices(parsed, duplicateIndices)
           allTransactions == AllTransactions(transactions, newTransactions)
       IN  calls' = Append(calls, ImportCall(rawData, allTransactions, transactions,
                                             parsed, duplicateDetection, newTransactions,
                                             Cardinality(duplicateIndices)))
    /\ now' = t
    /\ UNCHANGED <<rawData, transactions, duplicateDetection, rules, showRuleDialog,
                   store, rejected>>

\* a save call completes: the store has the records, the awaiting handler resumes
CallOk(i) ==
    /\ i \in DOMAIN calls
    /\ store' = PutAll(store, calls[i].payload)
    /\ calls' = RemoveAt(calls, i)
    /\ transactions' = IF calls[i].op = "import" THEN calls[i].payload ELSE transactions
    /\ UNCHANGED <<rawData, duplicateDetection, rules, showRuleDialog, rejected, now>>

\* a save call fails: the promise is rejected and nothing runs after the await
\* (the first n records were written: the IndexedDB transaction aborts with n = 0, the
\* server's loop of INSERT OR REPLACE keeps what ran before the error)
CallFail(i) ==
    /\ i \in DOMAIN calls
    /\ \E n \in 0..Len(calls[i].payload) :
            store' = PutAll(store, SubSeq(calls[i].payload, 1, n))
    /\ calls' = RemoveAt(calls, i)
    /\ rejected' = rejected \cup {calls[i].op}
    /\ UNCHANGED <<rawData, transactions, duplicateDetection, rules, showRuleDialog, now>>

\* Settings: handleDuplicateDetectionChange
handleDuplicateDetectionChange(mode) ==
    /\ showRuleDialog = NoDialog
    /\ mode # duplicateDetection
    /\ duplicateDetection' = mode
    /\ UNCHANGED <<rawData, transactions, rules, showRuleDialog, store, calls,
                   rejected, now>>

InitApp ==
    /\ rawData = <<>>
    /\ transactions = <<>>
    /\ duplicateDetection = "strict"
    /\ rules = <<>>
    /\ showRuleDialog = NoDialog
    /\ store = EmptyStore
    /\ calls = <<>>
    /\ rejected = {}
    /\ now = 0

PayeeLead == <<" ">> \o PayeeA1
PayeeDateOnly == <<"2", "5", "-", "1", "1", "-", "1", "7">>

Payees == {PayeeA1, PayeeA2, PayeeC, PayeeLead, PayeeDateOnly, Unknown}

(***************************************************************************)
(* Renaming rules (utils/payeeRules, Settings)                             *)
(***************************************************************************)
Rule(pattern, replacement, isRegex, enabled) ==
    [pattern |-> pattern, replacement |-> replacement, isRegex |-> isRegex,
     enabled |-> enabled]

\* addRenamingRule: the rule is pushed to the end of the saved list
addRenamingRule(rule) == rules' = Append(rules, rule)

\* (variant: a disabled rule matches as well)
RuleMatches_IgnoreEnabled(rule, payee) ==
    IF rule.isRegex
    THEN LET regex == RegExp(rule.pattern, TRUE)
         IN  regex.ok /\ test(regex, payee)
    ELSE includes(toLowerCase(payee), toLowerCase(rule.pattern))

\* the callback of rules.some(...) in handleCategoryChange
RuleMatches(rule, payee) ==
    IF ~rule.enabled THEN FALSE
    ELSE IF rule.isRegex
         THEN LET regex == RegExp(rule.pattern, TRUE)
              IN  regex.ok /\ test(regex, payee)
         ELSE includes(toLowerCase(payee), toLowerCase(rule.pattern))

HasRule(payee, rs) == \E k \in DOMAIN rs : RuleMatches(rs[k], payee)

\* Settings: handleAddRule
handleAddRule(newRule) ==
    /\ showRuleDialog = NoDialog
    /\ newRule.pattern # <<>> /\ newRule.replacement # <<>>
    /\ addRenamingRule([newRule EXCEPT !.enabled = TRUE])
    /\ UNCHANGED <<rawData, transactions, duplicateDetection, showRuleDialog, store,
                   calls, rejected, now>>

\* Settings: handleToggleRule (the rule at position k)
handleToggleRule(k) ==
    /\ showRuleDialog = NoDialog
    /\ k \in DOMAIN rules
    /\ rules' = [rules EXCEPT ![k].enabled = ~rules[k].enabled]
    /\ UNCHANGED <<rawData, transactions, duplicateDetection, showRuleDialog, store,
                   calls, rejected, now>>

\* Settings: handleDeleteRule (the rule at position k)
handleDeleteRule(k) ==
    /\ showRuleDialog = NoDialog
    /\ k \in DOMAIN rules
    /\ rules' = RemoveAt(rules, k)
    /\ UNCHANGED <<rawData, transactions, duplicateDetection, showRuleDialog, store,
                   calls, rejected, now>>

(***************************************************************************)
(* Category taxonomy (utils/categoryLoader)                                *)
(***************************************************************************)
True == "true"
False == "false"
DefaultColor == "#6b7280"

\* a node of the YAML document: Undefined for a color or a flag it leaves out,
\* <<>> for no children
YamlCategory(name, color, isSubscription, children) ==
    [name |-> name, color |-> color, isSubscription |-> isSubscription,
     children |-> children]

Category(name, color, parent, isSubscription) ==
    [name |-> name, color |-> color, parent |-> parent, isSubscription |-> isSubscription]

\* (variant: what a node leaves out is taken from its parent's own values only)
RECURSIVE flattenCategories_OwnValues(_, _, _, _, _)
flattenCategories_OwnValues(yamlCategories, parentName, parentColor, parentIsSubscription, level) ==
    IF yamlCategories = <<>> THEN <<>>
    ELSE LET cat == Head(yamlCategories)
             color == IF cat.color # Undefined THEN cat.color
                      ELSE IF parentColor # Undefined THEN parentColor ELSE DefaultColor
             isSubscription ==
                 IF cat.isSubscription # Undefined THEN cat.isSubscription
                 ELSE IF parentIsSubscription # Undefined THEN parentIsSubscription
                 ELSE False
         IN  <<Category(cat.name, color, parentName, isSubscription)>>
             \o (IF cat.children # <<>> /\ level < 3
                 THEN flattenCategories_OwnValues(cat.children, cat.name, cat.color,
                                                  cat.isSubscription, level + 1)
                 ELSE <<>>)
             \o flattenCategories_OwnValues(Tail(yamlCategories), parentName, parentColor,
                                            parentIsSubscription, level)

\* (variant: children are followed at every level)
RECURSIVE flattenCategories_NoCut(_, _, _, _, _)
flattenCategories_NoCut(yamlCategories, parentName, parentColor, parentIsSubscription, level) ==
    IF yamlCategories = <<>> THEN <<>>
    ELSE LET cat == Head(yamlCategories)
             color == IF cat.color # Undefined THEN cat.color
                      ELSE IF parentColor # Undefined THEN parentColor ELSE DefaultColor
             isSubscription ==
                 IF cat.isSubscription # Undefined THEN cat.isSubscription
                 ELSE IF parentIsSubscription # Undefined THEN parentIsSubscription
                 ELSE False
         IN  <<Category(cat.name, color, parentName, isSubscription)>>
             \o (IF cat.children # <<>>
                 THEN flattenCategories_NoCut(cat.children, cat.name, color,
                                              isSubscription, level + 1)
                 ELSE <<>>)
             \o flattenCategories_NoCut(Tail(yamlCategories), parentName, parentColor,
                                        parentIsSubscription, level)

\* for (const cat of yamlCategories): the categories pushed for the first node and
\* its children, then those of the remaining nodes
RECURSIVE flattenCategories(_, _, _, _, _)
flattenCategories(yamlCategories, parentName, parentColor, parentIsSubscription, level) ==
    IF yamlCategories = <<>> THEN <<>>
    ELSE LET cat == Head(yamlCategories)
             \* cat.color || parentColor || '#6b7280'
             color == IF cat.color # Undefined THEN cat.color
                      ELSE IF parentColor # Undefined THEN parentColor ELSE DefaultColor
             \* cat.isSubscription ?? parentIsSubscription ?? false
             isSubscription ==
                 IF cat.isSubscription # Undefined THEN cat.isSubscription
                 ELSE IF parentIsSubscription # Undefined THEN parentIsSubscription
                 ELSE False
         IN  <<Category(cat.name, color, parentName, isSubscription)>>
             \o (IF cat.children # <<>> /\ level < 3
                 THEN flattenCategories(cat.children, cat.name, color, isSubscription,
                                        level + 1)
                 ELSE <<>>)
             \o flattenCategories(Tail(yamlCategories), parentName, parentColor,
                                  parentIsSubscription, level)

getDefaultCategories ==
    << Category("Income", "#10b981", Undefined, Undefined),
       Category("Food & Dining", "#ef4444", Undefined, Undefined),
       Category("Restaurant", "#ef4444", "Food & Dining", Undefined),
       Category("Fast Food", "#ef4444", "Food & Dining", Undefined),
       Category("Groceries", "#ef4444", "Food & Dining", Undefined),
       Category("Transportation", "#f97316", Undefined, Undefined),
       Category("Gas", "#f97316", "Transportation", Undefined),
       Category("Public Transit", "#f97316", "Transportation", Undefined),
       Category("Shopping", "#eab308", Undefined, Undefined),
       Category("Entertainment", "#22c55e", Undefined, Undefined),
       Category("Bills & Utilities", "#3b82f6", Undefined, Undefined),
       Category("Healthcare", "#8b5cf6", Undefined, Undefined),
       Category("Subscriptions", "#a855f7", Undefined, True),
       Category("Streaming", "#a855f7", "Subscriptions", True),
       Category("Software", "#a855f7", "Subscriptions", True),
       Category("Gym", "#a855f7", "Subscriptions", True),
       Category("Other", "#6b7280", Undefined, Undefined) >>

\* What the try block of loadCategoriesFromYaml meets: fetch rejects, yaml.load throws,
\* yaml.load returns no object (data.categories throws), the object has no categories
\* (the for-of in flattenCategories throws), or the object has the list categories
Source(outcome, list) == [outcome |-> outcome, categories |-> list]

FailureOutcomes == {"fetch rejects", "yaml.load throws", "no document", "no categories"}

loadCategoriesFromYaml(source) ==
    IF source.outcome \in FailureOutcomes THEN getDefaultCategories
    ELSE flattenCategories(source.categories, Undefined, Undefined, Undefined, 0)

\* allCategories.find(c => c.name === name): the index of the first one, 0 for undefined
FindCategory(allCategories, name) ==
    IF \E i \in DOMAIN allCategories : allCategories[i].name = name
    THEN CHOOSE i \in DOMAIN allCategories :
            /\ allCategories[i].name = name
            /\ \A j \in 1..(i - 1) : allCategories[j].name # name
    ELSE 0

\* while (current?.parent) { hierarchy.unshift(current.parent); current = find(...) }
RECURSIVE WalkParents(_, _, _)
WalkParents(hierarchy, current, allCategories) ==
    IF current # 0 /\ allCategories[current].parent # Undefined
    THEN WalkParents(<<allCategories[current].parent>> \o hierarchy,
                     FindCategory(allCategories, allCategories[current].parent),
                     allCategories)
    ELSE hierarchy

getCategoryHierarchy(categoryName, allCategories) ==
    WalkParents(<<categoryName>>, FindCategory(allCategories, categoryName), allCategories)

\* (variant: the direct children only)
getCategoryChildren_DirectOnly(categoryName, allCategories) ==
    SelectSeq(allCategories, LAMBDA c : c.parent = categoryName)

RECURSIVE getCategoryChildren(_, _)
RECURSIVE ChildrenOfEach(_, _)
\* for (const child of directChildren) children.push(...getCategoryChildren(child.name))
ChildrenOfEach(directChildren, allCategories) ==
    IF directChildren = <<>> THEN <<>>
    ELSE getCategoryChildren(Head(directChildren).name, allCategories)
         \o ChildrenOfEach(Tail(directChildren), allCategories)

getCategoryChildren(categoryName, allCategories) ==
    LET directChildren == SelectSeq(allCategories, LAMBDA c : c.parent = categoryName)
    IN  directChildren \o ChildrenOfEach(directChildren, allCategories)

getCategoryLevel(categoryName, allCategories) ==
    Len(getCategoryHierarchy(categoryName, allCategories)) - 1

\* (variant: the last name of the hierarchy)
getRootCategory_Last(categoryName, allCategories) ==
    LET hierarchy == getCategoryHierarchy(categoryName, allCategories)
    IN  hierarchy[Len(hierarchy)]

getRootCategory(categoryName, allCategories) ==
    getCategoryHierarchy(categoryName, allCategories)[1]

\* the keys of the object store in key order
IdBefore(a, b) == a[1] < b[1] \/ (a[1] = b[1] /\ a[2] < b[2])

RECURSIVE KeysInOrder(_)
KeysInOrder(ids) ==
    IF ids = {} THEN <<>>
    ELSE LET first == CHOOSE a \in ids : \A b \in ids \ {a} : IdBefore(a, b)
         IN  <<first>> \o KeysInOrder(ids \ {first})

\* indexedDB.getTransactions: store.getAll() with the dates made Date objects again
getTransactions(st) ==
    LET keys == KeysInOrder(DOMAIN st)
    IN  [i \in DOMAIN keys |-> FromStore(st[keys[i]])]

\* init up to await storage.initDB(): saved is localStorage 'storage-settings'
\* ("unreadable": JSON.parse throws and the promise of init is rejected)
SavedSettings == {"none", "local", "backend", "unreadable"}

initSettings(saved) ==
    /\ initAt = "settings"
    /\ initAt' = IF saved = "unreadable" THEN "rejected" ELSE "initDB"
    /\ UNCHANGED <<yamlSource, categories, loading, loadFailed>>
    /\ UNCHANGED appVars

\* await storage.initDB(): indexedDB.open succeeds, or request.onerror rejects
initDB(opened) ==
    /\ initAt = "initDB"
    /\ initAt' = IF opened THEN "loadCategories" ELSE "rejected"
    /\ UNCHANGED <<yamlSource, categories, loading, loadFailed>>
    /\ UNCHANGED appVars

\* setCategories(await loadCategoriesFromYaml())
initLoadCategories ==
    /\ initAt = "loadCategories"
    /\ categories' = loadCategoriesFromYaml(yamlSource)
    /\ initAt' = "loadData"
    /\ UNCHANGED <<yamlSource, loading, loadFailed>>
    /\ UNCHANGED appVars

\* loadData: storage.getTransactions() resolves (read) or rejects; the catch
\* logs the error.  store is the storage the settings select.
loadData(read) ==
    /\ IF read THEN transactions' = getTransactions(store) /\ UNCHANGED loadFailed
               ELSE loadFailed' = TRUE /\ UNCHANGED transactions
    /\ UNCHANGED <<rawData, duplicateDetection, rules, showRuleDialog, store, calls,
                   rejected, now, yamlSource, categories>>

\* await loadData(); setLoading(false)
initLoadData(read) ==
    /\ initAt = "loadData"
    /\ loadData(read)
    /\ loading' = FALSE
    /\ initAt' = "done"

\* Settings: the storage was switched
handleStorageChange(read) ==
    /\ initAt = "done"
    /\ loadData(read)
    /\ UNCHANGED <<loading, initAt>>

(***************************************************************************)
(* SpecStartup: App init on the category sources of the model              *)
(***************************************************************************)
MaxSourceLevel == 4   \* the deepest level of a node in a category source

ChainNames ==
    <<"Subscriptions", "Streaming Services", "Video Streaming", "Netflix", "Netflix 4K",
      "Netflix 4K HDR", "Netflix 4K HDR Dolby">>

\* the color and the flag a node of the source gives
NodeValues ==
    {<<Undefined, Undefined>>, <<"#a855f7", Undefined>>, <<Undefined, True>>,
     <<"#3b82f6", False>>}

\* a source tree nested down to level MaxSourceLevel; values[l] is what the node of
\* level l gives, and the deeper nodes give nothing
RECURSIVE Chain(_, _)
Chain(l, values) ==
    LET v == IF l \in DOMAIN values THEN values[l] ELSE <<Undefined, Undefined>>
        below == IF l < MaxSourceLevel THEN <<Chain(l + 1, values)>> ELSE <<>>
        sibling == IF l = 0
                   THEN <<YamlCategory("Music Streaming", Undefined, Undefined, <<>>)>>
                   ELSE <<>>
    IN  YamlCategory(ChainNames[l + 1], v[1], v[2], below \o sibling)

FoodTree ==
    YamlCategory("Food & Dining", "#ef4444", Undefined,
        << YamlCategory("Restaurants", Undefined, Undefined,
              <<YamlCategory("Fine Dining", Undefined, Undefined, <<>>)>>),
           YamlCategory("Groceries", Undefined, Undefined, <<>>) >>)

Documents ==
    {Source("document", <<Chain(0, values), FoodTree>>) : values \in [0..3 -> NodeValues]}
    \cup {Source("document", <<>>)}

Sources == Documents \cup {Source(o, <<>>) : o \in FailureOutcomes}

\* no filter of Analytics is set
NoFilters ==
    /\ dateRange = [start |-> "", end |-> ""]
    /\ selectedCategories = <<>>
    /\ selectedPayees = <<>>

\* no payee is being renamed
NoEdit == editingPayee = <<>> /\ editPayeeValue = <<>>

EmptyTable == [k \in {} |-> 0]

IdleScreens == NoFilters /\ NoEdit /\ db = EmptyTable

\* init has run to its end
Started == loading = FALSE /\ initAt = "done" /\ loadFailed = FALSE

\* a session whose init found no category source
IdleView ==
    /\ yamlSource = Source("fetch rejects", <<>>)
    /\ categories = getDefaultCategories
    /\ Started
    /\ IdleScreens

IdleRest == IdleRules /\ IdleView

\* what earlier sessions left in the store
StoredBefore == {<<>>, Parsed(<<RowA, RowLater>>, 0)}

InitStartup ==
    /\ payeeArg = <<>>
    /\ patternRes = NoResult
    /\ IdleRules
    /\ rawData = <<>>
    /\ transactions = <<>>
    /\ duplicateDetection = "strict"
    /\ rules = <<>>
    /\ showRuleDialog = NoDialog
    /\ store \in {PutAll(EmptyStore, saved) : saved \in StoredBefore}
    /\ calls = <<>>
    /\ rejected = {}
    /\ now = 0
    /\ yamlSource \in Sources
    /\ categories = <<>>
    /\ loading = TRUE
    /\ initAt = "settings"
    /\ loadFailed = FALSE
    /\ IdleScreens

NextStartup ==
    /\ UNCHANGED <<extractVars, ruleVars, screenVars>>
    /\ \/ \E saved \in SavedSettings : initSettings(saved)
       \/ \E opened \in BOOLEAN : initDB(opened)
       \/ initLoadCategories
       \/ \E read \in BOOLEAN : initLoadData(read)
       \/ \E read \in BOOLEAN : handleStorageChange(read)

SpecStartup == InitStartup /\ [][NextStartup]_vars

\* every step of init that can be taken is taken
SpecStartupFair == SpecStartup /\ WF_vars(NextStartup)

(***************************************************************************)
(* The two storage backends (storage/index, storage/backend, server)       *)
(***************************************************************************)
Null == "null"

\* value || null
OrNull(value) == IF value \in {Undefined, Null, ""} THEN Null ELSE value

\* JSON.stringify(txn.tags || []) and JSON.parse(obj.tags)
JSONstringify(tags) == <<"json", tags>>
JSONparse(text) == text[2]

\* a field of an object, undefined when the object has none of that name
Get(obj, field) == IF field \in DOMAIN obj THEN obj[field] ELSE Undefined

\* the element of the body of the POST: { ...t, date: t.date.toISOString() }
PostedTransaction(t) == [t EXCEPT !.date = toISOString(t.date)]

\* the row INSERT OR REPLACE writes: of the fields of a Transaction of the
\* model the table has the columns id, date, payee, amount, category and tags
InsertedRow(txn) ==
    [id |-> txn.id,
     date |-> txn.date,
     payee |-> txn.payee,
     amount |-> txn.amount,
     category |-> OrNull(Get(txn, "category")),
     tags |-> JSONstringify(IF Get(txn, "tags") = Undefined THEN <<>> ELSE txn.tags)]

\* app.post('/api/transactions'): one INSERT OR REPLACE per transaction
RECURSIVE PostTransactions(_, _)
PostTransactions(table, body) ==
    IF body = <<>> THEN table
    ELSE LET row == InsertedRow(Head(body))
         IN  PostTransactions([k \in DOMAIN table \cup {row.id} |->
                                  IF k = row.id THEN row ELSE table[k]],
                              Tail(body))

\* backend.saveTransactions
backendSaveTransactions(table, list) ==
    PostTransactions(table, [i \in DOMAIN list |-> PostedTransaction(list[i])])

\* SELECT * FROM transactions ORDER BY date DESC (rows of one date by id)
RowBefore(a, b) ==
    \/ a.date[2] > b.date[2]
    \/ a.date[2] = b.date[2] /\ IdBefore(a.id, b.id)

RECURSIVE SelectAll(_)
SelectAll(rows) ==
    IF rows = {} THEN <<>>
    ELSE LET first == CHOOSE a \in rows : \A b \in rows \ {a} : RowBefore(a, b)
         IN  <<first>> \o SelectAll(rows \ {first})

\* app.get('/api/transactions') and backend.getTransactions: the tags parsed,
\* the date made a Date again
backendGetTransactions(table) ==
    LET rows == SelectAll({table[k] : k \in DOMAIN table})
    IN  [i \in DOMAIN rows |->
            [rows[i] EXCEPT !.tags = JSONparse(rows[i].tags),
                            !.date = fromISOString(rows[i].date)]]

\* storage.saveTransactions(transactions) with the storage type of Settings
saveTransactions(storageType) ==
    /\ IF storageType = "backend"
       THEN db' = backendSaveTransactions(db, transactions) /\ UNCHANGED store
       ELSE store' = PutAll(store, transactions) /\ UNCHANGED db
    /\ UNCHANGED <<rawData, transactions, duplicateDetection, rules, showRuleDialog,
                   calls, rejected, now>>
    /\ UNCHANGED <<extractVars, ruleVars, taxonomyVars, analyticsVars, editVars>>

(***************************************************************************)
(* SpecBackends: one working copy saved to IndexedDB and to the backend    *)
(***************************************************************************)
MaxSavedTxns == 2

\* what TransactionList's onUpdate leaves in the optional fields
Tagged == {<<>>, <<"trip">>}
Currencies == {Undefined, "EUR"}
SavingFlags == {Undefined, True, False}
Assigned == {Undefined, "Food"}

ImportedBefore == Parsed(<<RowA, RowLater, RowA30>>, 0)

FullTransactions(k) ==
    {[id |-> ImportedBefore[k].id, date |-> ImportedBefore[k].date,
      payee |-> ImportedBefore[k].payee, amount |-> ImportedBefore[k].amount,
      category |-> c, tags |-> t, currency |-> cur, isSaving |-> sav] :
        c \in Assigned, t \in Tagged, cur \in Currencies, sav \in SavingFlags}

WorkingCopies ==
    UNION {{list \in [1..n -> UNION {FullTransactions(k) : k \in 1..n}] :
                \A k \in 1..n : list[k] \in FullTransactions(k)} :
           n \in 0..MaxSavedTxns}

InitBackends ==
    /\ payeeArg = <<>>
    /\ patternRes = NoResult
    /\ IdleRest
    /\ rawData = <<>>
    /\ transactions \in WorkingCopies
    /\ duplicateDetection = "strict"
    /\ rules = <<>>
    /\ showRuleDialog = NoDialog
    /\ store = EmptyStore
    /\ calls = <<>>
    /\ rejected = {}
    /\ now = 0

NextBackends == \E storageType \in {"local", "backend"} : saveTransactions(storageType)

SpecBackends == InitBackends /\ [][NextBackends]_vars

(***************************************************************************)
(* Analytics (components/Analytics)                                        *)
(***************************************************************************)
\* new Date(dateRange.end + 'T23:59:59'), in hours: the last hour of that day
EndOfDay(end) == newDate(end).value + 23

\* (variant: a selected category matches only itself)
MatchesSelected_ExactOnly(t, selectedCat) == t.category = selectedCat

\* the callback of selectedCategories.some
MatchesSelected(t, selectedCat) ==
    \/ t.category = selectedCat
    \/ \E child \in Range(getCategoryChildren(selectedCat, categories)) :
            child.name = t.category

\* the callback of transactions.filter
PassesFilters(t) ==
    /\ ~(dateRange.start # "" /\ t.date < newDate(dateRange.start).value)
    /\ ~(dateRange.end # "" /\ t.date > EndOfDay(dateRange.end))
    /\ selectedCategories # <<>> =>
            /\ t.category # Undefined
            /\ \E k \in DOMAIN selectedCategories : MatchesSelected(t, selectedCategories[k])
    /\ selectedPayees # <<>> => t.payee \in Range(selectedPayees)

filteredTransactions == SelectSeq(transactions, PassesFilters)

spending == SelectSeq(filteredTransactions, LAMBDA t : t.amount < 0)

\* reduce((sum, t) => sum + t.amount, 0)
RECURSIVE SumAmounts(_)
SumAmounts(txns) == IF txns = <<>> THEN 0 ELSE Head(txns).amount + SumAmounts(Tail(txns))

Abs(x) == IF x < 0 THEN 0 - x ELSE x

totalSpending == Abs(SumAmounts(spending))

\* (variant: every transaction whose category is found counts)
InSubscription_AnyFound(t) == FindCategory(categories, t.category) # 0

\* categories.find(c => c.name === t.category)?.isSubscription
InSubscription(t) ==
    LET cat == FindCategory(categories, t.category)
    IN  cat # 0 /\ categories[cat].isSubscription = True

subscriptionSpending == Abs(SumAmounts(SelectSeq(spending, InSubscription)))

rootCategories == SelectSeq(categories, LAMBDA c : c.parent = Undefined)

uniquePayees == {transactions[i].payee : i \in DOMAIN transactions}

\* prev.includes(x) ? prev.filter(c => c !== x) : [...prev, x]
Toggle(prev, x) ==
    IF x \in Range(prev) THEN SelectSeq(prev, LAMBDA c : c # x) ELSE Append(prev, x)

toggleCategoryFilter(category) ==
    /\ selectedCategories' = Toggle(selectedCategories, category)
    /\ UNCHANGED <<dateRange, selectedPayees>>

togglePayeeFilter(payee) ==
    /\ selectedPayees' = Toggle(selectedPayees, payee)
    /\ UNCHANGED <<dateRange, selectedCategories>>

setDateRange(field, value) ==
    /\ dateRange[field] # value
    /\ dateRange' = [dateRange EXCEPT ![field] = value]
    /\ UNCHANGED <<selectedCategories, selectedPayees>>

clearFilters ==
    /\ ~NoFilters
    /\ dateRange' = [start |-> "", end |-> ""]
    /\ selectedCategories' = <<>>
    /\ selectedPayees' = <<>>

(***************************************************************************)
(* SpecAnalytics: the filters of Analytics over categorized transactions   *)
(***************************************************************************)
MaxAnalyticsTxns == 3   \* transactions shown in Analytics

\* what the four upper levels of the chain give: the flag at the root and an explicit
\* false at level 3, or the flag at level 1 only
AnalyticsValues ==
    { [l \in 0..3 |-> CASE l = 0 -> <<"#a855f7", True>>
                        [] l = 3 -> <<"#3b82f6", False>>
                        [] OTHER -> <<Undefined, Undefined>>],
      [l \in 0..3 |-> IF l = 1 THEN <<Undefined, True>> ELSE <<Undefined, Undefined>>] }

AnalyticsSources ==
    {Source("document", <<Chain(0, values), FoodTree>>) : values \in AnalyticsValues}

Txn(index, date, payee, amount, category) ==
    [id |-> <<1, index>>, date |-> newDate(date).value, payee |-> payee,
     amount |-> amount, category |-> category]

\* imported and categorized transactions, in the order of their import
SampleTxns ==
    << Txn(0, "2024-01-15", PayeeC, 0 - 1000, "Netflix"),
       Txn(1, "2024-01-20", PayeeC, 0 - 250, "Video Streaming"),
       Txn(2, "2024-01-15", PayeeA1, 0 - 500, "Fine Dining"),
       Txn(3, "2024-01-20", PayeeA1, 700, "Subscriptions"),
       Txn(4, "2024-01-15", PayeeC, 0 - 300, Undefined),
       Txn(5, "2024-01-20", PayeeA1, 0 - 125, "Removed Category"),
       Txn(6, "2024-01-20", PayeeC, 0 - 400, "Food & Dining") >>

\* the transactions of SampleTxns with an index in picked, in their order
RECURSIVE Picked(_, _)
Picked(picked, k) ==
    IF k > Len(SampleTxns) THEN <<>>
    ELSE (IF k \in picked THEN <<SampleTxns[k]>> ELSE <<>>) \o Picked(picked, k + 1)

TxnLists ==
    {Picked(picked, 1) :
        picked \in {P \in SUBSET DOMAIN SampleTxns : Cardinality(P) <= MaxAnalyticsTxns}}

DateInputs == {"", "2024-01-15", "2024-01-20"}

InitAnalytics ==
    /\ payeeArg = <<>>
    /\ patternRes = NoResult
    /\ IdleRules
    /\ rawData = <<>>
    /\ transactions \in TxnLists
    /\ duplicateDetection = "strict"
    /\ rules = <<>>
    /\ showRuleDialog = NoDialog
    /\ store = PutAll(EmptyStore, transactions)
    /\ calls = <<>>
    /\ rejected = {}
    /\ now = 1
    /\ yamlSource \in AnalyticsSources
    /\ categories = loadCategoriesFromYaml(yamlSource)
    /\ Started
    /\ IdleScreens

NextAnalytics ==
    /\ UNCHANGED <<extractVars, ruleVars, taxonomyVars, appVars, editVars, db>>
    /\ \/ \E k \in DOMAIN rootCategories : toggleCategoryFilter(rootCategories[k].name)
       \/ \E payee \in uniquePayees : togglePayeeFilter(payee)
       \/ \E field \in {"start", "end"}, value \in DateInputs : setDateRange(field, value)
       \/ clearFilters

SpecAnalytics == InitAnalytics /\ [][NextAnalytics]_vars

(***************************************************************************)
(* applyRenamingRules (utils/payeeRules)                                   *)
(***************************************************************************)
\* (variant: a pattern that does not compile ends the renaming with nothing)
ApplyRule_NoCatch(result, rule) ==
    IF ~rule.enabled THEN result
    ELSE LET regex == RegExp(IF rule.isRegex THEN rule.pattern
                             ELSE escapeRegex(rule.pattern), TRUE)
         IN  IF ~regex.ok THEN <<>> ELSE replace(result, regex, rule.replacement)

\* the body of the loop: one rule applied to the result so far
ApplyRule(result, rule) ==
    IF ~rule.enabled THEN result
    ELSE LET regex == RegExp(IF rule.isRegex THEN rule.pattern
                             ELSE escapeRegex(rule.pattern), TRUE)
         IN  IF ~regex.ok THEN result ELSE replace(result, regex, rule.replacement)

RECURSIVE ApplyRulesFrom(_, _, _)
ApplyRulesFrom(result, rs, k) ==
    IF k > Len(rs) THEN result ELSE ApplyRulesFrom(ApplyRule(result, rs[k]), rs, k + 1)

applyRenamingRules(payee, rs) == trim(ApplyRulesFrom(payee, rs, 1))

MaxRuleList == 3      \* SpecRules: rules in the list handed to applyRenamingRules

JoesGrillSlashDate ==
    JoesGrill \o <<" ", "1", "2", "/", "0", "1", "/", "2", "0", "2", "4">>
DottedPayee == <<" ", "A", ".", "B", " ", "a", "x", "b", " ">>
JoesGrillRenamed == <<"J", "o", "e", "'", "s", " ", "G", "r", "i", "l", "l">>

RulePayees == {JoesGrillAmpSlashDate, JoesGrillSlashDate, JoesGrillDowntown, DottedPayee}

RuleJoe == Rule(<<"^">> \o JoesGrill \o <<".", "*">>, JoesGrillRenamed, TRUE, TRUE)
RuleJoeOff == [RuleJoe EXCEPT !.enabled = FALSE]
RuleDot == Rule(<<"a", ".", "b">>, <<"X">>, FALSE, TRUE)
RuleBad == Rule(<<"(">>, <<"Z">>, TRUE, TRUE)
RuleGrill == Rule(<<"g", "r", "i", "l", "l">>, <<"B", "a", "r">>, FALSE, TRUE)
RuleDollar == Rule(<<"j", "o", "e", "s">>, <<"J", "$", "$">>, FALSE, TRUE)
RuleBlank == Rule(<<"^", "j", "o", "e", "s">>, <<" ">>, TRUE, TRUE)

RuleInputs == {RuleJoe, RuleJoeOff, RuleDot, RuleBad, RuleGrill, RuleDollar, RuleBlank}

RuleLists ==
    UNION {[1..n -> RuleInputs] : n \in 0..MaxRuleList}

InitRules ==
    /\ payeeArg \in RulePayees
    /\ rulesArg \in RuleLists
    /\ renamed = NoResult
    /\ patternRes = NoResult
    /\ IdleView
    /\ InitApp

CallApplyRules ==
    /\ renamed = NoResult
    /\ renamed' = applyRenamingRules(payeeArg, rulesArg)
    /\ UNCHANGED <<payeeArg, patternRes, rulesArg, taxonomyVars, screenVars>>
    /\ UNCHANGED appVars

NextRules == CallApplyRules

SpecRules == InitRules /\ [][NextRules]_vars

(***************************************************************************)
(* Categorization and bulk apply (App, TransactionList)                    *)
(***************************************************************************)
\* a save awaiting its result, with the arguments of the handler that is suspended on it
SaveCall(op, payload, ids, category) ==
    [op |-> op, payload |-> payload, ids |-> ids, category |-> category]

WithCategory(txns, ids, category) ==
    [i \in DOMAIN txns |->
        IF txns[i].id \in ids THEN [txns[i] EXCEPT !.category = category] ELSE txns[i]]

\* App.handleUpdateTransaction(id, { category })
handleUpdateTransaction(id, category) ==
    LET updated == WithCategory(transactions, {id}, category)
    IN  /\ transactions' = updated
        /\ calls' = Append(calls, SaveCall("update", updated, {id}, category))

\* App.handleBulkUpdate(ids, { category })
handleBulkUpdate(ids, category) ==
    LET updated == WithCategory(transactions, ids, category)
    IN  /\ transactions' = updated
        /\ calls' = Append(calls, SaveCall("bulk", updated, ids, category))

\* extractPayeePattern over the payees the rows carry, computed once
PayeePatterns == [p \in Payees |-> extractPayeePattern(p)]

PatternOf(payee) == PayeePatterns[payee]

\* transactions.find(t => t.id === id)
Find(txns, id) == txns[CHOOSE i \in DOMAIN txns :
                        txns[i].id = id /\ \A j \in 1..(i - 1) : txns[j].id # id]

\* (variant: the category of the other transaction is not looked at)
SimilarTxns_AnyCategory(txns, pattern, id, category) ==
    {i \in DOMAIN txns : PatternOf(txns[i].payee) = pattern /\ txns[i].id # id}

\* the transactions the prompt is about
SimilarTxns(txns, pattern, id, category) ==
    {i \in DOMAIN txns :
        /\ PatternOf(txns[i].payee) = pattern
        /\ txns[i].id # id
        /\ txns[i].category # category}

Dialog(pattern, category, hasRule) ==
    [open |-> TRUE, payee |-> pattern, category |-> category, hasRule |-> hasRule]

\* TransactionList.handleCategoryChange(id, category); category "" is "Uncategorized"
handleCategoryChange(id, category) ==
    /\ showRuleDialog = NoDialog
    /\ \E i \in DOMAIN transactions : transactions[i].id = id
    /\ LET txn == Find(transactions, id)
           pattern == PatternOf(txn.payee)
           hasRule == HasRule(txn.payee, rules)
       IN  /\ handleUpdateTransaction(id, IF category = "" THEN Undefined ELSE category)
           /\ showRuleDialog' =
                IF /\ category # ""
                   /\ pattern # <<>>
                   /\ SimilarTxns(transactions, pattern, id, category) # {}
                THEN Dialog(pattern, category, hasRule)
                ELSE showRuleDialog
    /\ UNCHANGED <<rawData, duplicateDetection, rules, store, rejected, now>>

\* (variant: the pattern is not escaped)
PatternRule_Unescaped(pattern) ==
    Rule(<<"^">> \o pattern \o <<".", "*">>, pattern, TRUE, TRUE)

\* the rule the prompt creates
PatternRule(pattern) ==
    Rule(<<"^">> \o escapeRegex(pattern) \o <<".", "*">>, pattern, TRUE, TRUE)

\* (variant: only the transactions that have no category yet)
MatchingIds_Uncategorized(txns, pattern) ==
    {txns[i].id : i \in {j \in DOMAIN txns :
        PatternOf(txns[j].payee) = pattern /\ txns[j].category = Undefined}}

\* transactions.filter(t => extractPayeePattern(t.payee) === pattern).map(t => t.id)
MatchingIds(txns, pattern) ==
    {txns[i].id : i \in {j \in DOMAIN txns : PatternOf(txns[j].payee) = pattern}}

\* TransactionList.applyPatternRule(pattern, category, createRule)
applyPatternRule(pattern, category, createRule) ==
    /\ IF createRule THEN addRenamingRule(PatternRule(pattern)) ELSE UNCHANGED rules
    /\ handleBulkUpdate(MatchingIds(transactions, pattern), category)
    /\ showRuleDialog' = NoDialog
    /\ UNCHANGED <<rawData, duplicateDetection, store, rejected, now>>

\* the buttons of the Pattern Rule Dialog
CreateRuleOffered == showRuleDialog.open /\ ~showRuleDialog.hasRule

ClickCreateAndApply ==
    /\ CreateRuleOffered
    /\ applyPatternRule(showRuleDialog.payee, showRuleDialog.category, TRUE)

ClickApplyOnly ==
    /\ showRuleDialog.open
    /\ applyPatternRule(showRuleDialog.payee, showRuleDialog.category, FALSE)

ClickCancel ==
    /\ showRuleDialog.open
    /\ showRuleDialog' = NoDialog
    /\ UNCHANGED <<rawData, transactions, duplicateDetection, rules, store, calls,
                   rejected, now>>

(***************************************************************************)
(* SpecCat: categorization on a working copy that imports have produced    *)
(***************************************************************************)
Categories == {"Food", "Fun"}

RowC == Row("2024-01-15", PayeeC, Amount25)
RowLead == Row("2024-01-20", PayeeLead, Amount25)
RowDateOnly == Row("2024-01-15", PayeeDateOnly, Amount30)

UserRules ==
    { Rule(<<"a", ".", "b">>, <<"S", "h", "o", "p">>, FALSE, TRUE),
      Rule(<<"(">>, <<"S", "h", "o", "p">>, TRUE, TRUE),
      Rule(<<"^", "c", "d", "$">>, <<"C", "a", "f", "e">>, TRUE, TRUE) }

\* the state after the rows data were imported at time 1 into an empty application
Imported(data) ==
    LET working == Parsed(data, 1)
    IN  /\ rawData = data
        /\ transactions = working
        /\ store = PutAll(EmptyStore, working)
        /\ calls = <<>>
        /\ now = 1

\* the same, with a second import, of the rows more at time 2, awaiting its save
ImportedAndImporting(data, more) ==
    LET working == Parsed(data, 1)
        parsed == Parsed(more, 2)
        dup == DuplicateIndices(parsed, working, "strict")
        newTransactions == WithoutIndices(parsed, dup)
    IN  /\ rawData = more
        /\ transactions = working
        /\ store = PutAll(EmptyStore, working)
        /\ calls = <<ImportCall(more, AllTransactions(working, newTransactions), working,
                                parsed, "strict", newTransactions, Cardinality(dup))>>
        /\ now = 2

InitCat ==
    /\ \/ Imported(<<RowA, RowA2, RowC>>) /\ rules \in {<<>>} \cup {<<r>> : r \in UserRules}
       \/ Imported(<<RowLead, RowA2, RowDateOnly>>) /\ rules = <<>>
       \/ ImportedAndImporting(<<RowA, RowLater>>, <<RowA2>>) /\ rules = <<>>
    /\ duplicateDetection = "strict"
    /\ showRuleDialog = NoDialog
    /\ rejected = {}
    /\ payeeArg = <<>>
    /\ patternRes = NoResult
    /\ IdleRest

TxnIds == {<<t, k>> : t \in 1..MaxNow, k \in 0..(MaxTxns - 1)}

\* the saves of categorizations that are awaiting their result
CatCalls == Len(SelectSeq(calls, LAMBDA c : c.op # "import"))

NextCat ==
    \/ \E id \in TxnIds, category \in Categories \cup {""} :
            /\ CatCalls < MaxCatCalls
            /\ handleCategoryChange(id, category)
            /\ UNCHANGED pureVars
    \/ CatCalls < MaxCatCalls /\ Len(rules) < MaxRules /\ ClickCreateAndApply
            /\ UNCHANGED pureVars
    \/ CatCalls < MaxCatCalls /\ ClickApplyOnly /\ UNCHANGED pureVars
    \/ ClickCancel /\ UNCHANGED pureVars
    \/ \E i \in DOMAIN calls : CallOk(i) /\ UNCHANGED pureVars
    \/ \E i \in DOMAIN calls : CallFail(i) /\ UNCHANGED pureVars
    \/ \E k \in DOMAIN rules : handleToggleRule(k) /\ UNCHANGED pureVars

SpecCat == InitCat /\ [][NextCat]_vars

(***************************************************************************)
(* The inline payee editor (TransactionList)                               *)
(***************************************************************************)
\* displayPayee of a row: applyRenamingRules(t.payee, getRenamingRules())
displayPayee(txn) == applyRenamingRules(txn.payee, rules)

\* the rule handleSavePayee adds
RenameRule(originalPayee, value) ==
    Rule(<<"^">> \o escapeRegex(originalPayee) \o <<"$">>, trim(value), TRUE, TRUE)

\* handleEditPayee(id, currentPayee)
handleEditPayee(id, currentPayee) ==
    /\ editingPayee' = id
    /\ editPayeeValue' = currentPayee
    /\ UNCHANGED rules

\* handleSavePayee(originalPayee)
handleSavePayee(originalPayee) ==
    /\ IF trim(editPayeeValue) # <<>> /\ editPayeeValue # originalPayee
       THEN addRenamingRule(RenameRule(originalPayee, editPayeeValue))
       ELSE UNCHANGED rules
    /\ editingPayee' = <<>>
    /\ UNCHANGED editPayeeValue

\* what the handlers of the editor leave alone
EditorFrame ==
    /\ UNCHANGED <<rawData, transactions, duplicateDetection, showRuleDialog, store,
                   calls, rejected, now>>
    /\ UNCHANGED <<extractVars, ruleVars, taxonomyVars, analyticsVars, db>>

\* the row's "Rename payee" button: handleEditPayee(txn.id, txn.displayPayee)
ClickRenamePayee(k) ==
    /\ editingPayee = <<>>
    /\ k \in DOMAIN transactions
    /\ handleEditPayee(transactions[k].id, displayPayee(transactions[k]))
    /\ EditorFrame

\* the input's onChange
ChangePayeeInput(value) ==
    /\ editingPayee # <<>>
    /\ value # editPayeeValue
    /\ editPayeeValue' = value
    /\ UNCHANGED <<editingPayee, rules>>
    /\ EditorFrame

\* the input's onBlur, and Enter in it: handleSavePayee(txn.payee)
LeavePayeeInput ==
    /\ editingPayee # <<>>
    /\ handleSavePayee(Find(transactions, editingPayee).payee)
    /\ EditorFrame

\* Escape in the input: setEditingPayee(null)
EscapePayeeInput ==
    /\ editingPayee # <<>>
    /\ editingPayee' = <<>>
    /\ UNCHANGED <<editPayeeValue, rules>>
    /\ EditorFrame

(***************************************************************************)
(* SpecRename: inline renames on an imported working copy                  *)
(***************************************************************************)
MaxSavedRules == 2

PayeeLower == <<"c", "d">>
RowLower == Row("2024-01-20", PayeeLower, Amount25)

Shop == <<"S", "h", "o", "p">>
TypedValues == {Shop, <<" ">> \o Shop, <<"C", "a", "f", "e">>, <<" ">>, <<>>}

InitRename ==
    /\ Imported(<<RowC, RowLower, RowA>>)
    /\ rules \in {<<>>} \cup {<<r>> : r \in UserRules}
    /\ duplicateDetection = "strict"
    /\ showRuleDialog = NoDialog
    /\ rejected = {}
    /\ payeeArg = <<>>
    /\ patternRes = NoResult
    /\ IdleRest

NextRename ==
    \/ \E k \in DOMAIN transactions : Len(rules) < MaxSavedRules /\ ClickRenamePayee(k)
    \/ \E value \in TypedValues : ChangePayeeInput(value)
    \/ LeavePayeeInput
    \/ EscapePayeeInput

SpecRename == InitRename /\ [][NextRename]_vars

(***************************************************************************)
(* SpecRace: imports and categorizations whose saves overlap               *)
(***************************************************************************)
MaxRaceCalls == 2
MaxRaceNow == 3

InitRace ==
    /\ \/ Imported(<<RowA, RowC>>)
       \/ ImportedAndImporting(<<RowA>>, <<RowLater>>)
    /\ rules = <<>>
    /\ duplicateDetection = "strict"
    /\ showRuleDialog = NoDialog
    /\ rejected = {}
    /\ payeeArg = <<>>
    /\ patternRes = NoResult
    /\ IdleRest

NextRace ==
    \/ Len(calls) < MaxRaceCalls /\ now < MaxRaceNow /\ handleMappingComplete(now + 1)
            /\ UNCHANGED pureVars
    \/ \E id \in TxnIds, category \in Categories \cup {""} :
            /\ Len(calls) < MaxRaceCalls
            /\ handleCategoryChange(id, category)
            /\ UNCHANGED pureVars
    \/ ClickCancel /\ UNCHANGED pureVars
    \/ \E i \in DOMAIN calls : CallOk(i) /\ UNCHANGED pureVars
    \/ \E i \in DOMAIN calls : CallFail(i) /\ UNCHANGED pureVars

SpecRace == InitRace /\ [][NextRace]_vars

(***************************************************************************)
(* Claims about categorization (checked under SpecCat)                     *)
(***************************************************************************)
CategoryOf(txns, id) == Find(txns, id).category

SamePattern(txns, P) == {i \in DOMAIN txns : PatternOf(txns[i].payee) = P}

\* the bulk apply of the prompt's category: the matching transactions get it, the others
\* keep theirs, no transaction is added, dropped or moved
AppliedToPattern(P, C) ==
    /\ Len(transactions') = Len(transactions)
    /\ \A i \in DOMAIN transactions :
          /\ transactions'[i].id = transactions[i].id
          /\ transactions'[i].payee = transactions[i].payee
          /\ transactions'[i].category =
                IF i \in SamePattern(transactions, P) THEN C ELSE transactions[i].category

EnabledRuleMatches(rs, payee) ==
    \E k \in DOMAIN rs :
        /\ rs[k].enabled
        /\ \/ /\ rs[k].isRegex
              /\ RegExp(rs[k].pattern, TRUE).ok
              /\ test(RegExp(rs[k].pattern, TRUE), payee)
           \/ /\ ~rs[k].isRegex
              /\ includes(toLowerCase(payee), toLowerCase(rs[k].pattern))

\* C4: when the prompt opens for a categorized transaction t, rule creation is offered
\* iff no enabled rule matches t's raw payee (regex rules by case-insensitive test,
\* plain-text rules by case-insensitive containment, disabled and non-compiling rules
\* never).
C4_CreateOfferedIffNoEnabledRuleMatches ==
    [][\A id \in TxnIds, category \in Categories \cup {""} :
          (handleCategoryChange(id, category) /\ showRuleDialog'.open) =>
              (CreateRuleOffered' <=> ~EnabledRuleMatches(rules, Find(transactions, id).payee))
      ]_vars

\* the prompt is open without the create option while a rule is saved
C4_Witness ==
    /\ showRuleDialog.open /\ showRuleDialog.hasRule
    /\ \E k \in DOMAIN rules : rules[k].enabled

\* C5: once create-and-apply has added the rule for pattern P and the rule is enabled, a
\* categorization of a transaction whose extracted pattern is P does not offer rule
\* creation.
C5_NoSecondRuleOffered ==
    [][\A id \in TxnIds, category \in Categories \cup {""} :
          (/\ handleCategoryChange(id, category)
           /\ showRuleDialog'.open
           /\ \E k \in DOMAIN rules : rules[k] = PatternRule(showRuleDialog'.payee))
          => ~CreateRuleOffered'
      ]_vars

\* C6: assigning a category to t sets t's category and issues its save in the same step;
\* the prompt opens iff t's extracted pattern is non-empty and another transaction has
\* the same pattern and a category other than the new one; no other transaction and no
\* rule changes.
C6_CategorySetAndPromptIff ==
    [][\A id \in TxnIds, category \in Categories :
          handleCategoryChange(id, category) =>
              LET P == PatternOf(Find(transactions, id).payee)
              IN  /\ CategoryOf(transactions', id) = category
                  /\ \A i \in DOMAIN transactions :
                        transactions[i].id # id => transactions'[i] = transactions[i]
                  /\ Len(calls') = Len(calls) + 1
                  /\ calls'[Len(calls')].op = "update"
                  /\ calls'[Len(calls')].payload = transactions'
                  /\ rules' = rules
                  /\ showRuleDialog'.open <=>
                        /\ P # <<>>
                        /\ \E i \in DOMAIN transactions :
                              /\ transactions[i].id # id
                              /\ PatternOf(transactions[i].payee) = P
                              /\ transactions[i].category # category
      ]_vars

\* a categorization has opened the prompt and its save is awaiting its result
C6_Witness ==
    /\ showRuleDialog.open
    /\ calls # <<>>
    /\ calls[Len(calls)].op = "update"
    /\ calls[Len(calls)].payload = transactions
    /\ \E i \in DOMAIN transactions : transactions[i].category = showRuleDialog.category

\* C7: create-and-apply and apply-only give the category to every transaction of the
\* working copy of that moment whose extracted pattern is the prompt's, and write the
\* whole result by exactly one persistence call.
C7_ApplySetFromCurrentCopyOneCall ==
    [][(ClickCreateAndApply \/ ClickApplyOnly) =>
            /\ AppliedToPattern(showRuleDialog.payee, showRuleDialog.category)
            /\ Len(calls') = Len(calls) + 1
            /\ SubSeq(calls', 1, Len(calls)) = calls
            /\ calls'[Len(calls')].op = "bulk"
            /\ calls'[Len(calls')].payload = transactions'
            /\ calls'[Len(calls')].ids =
                    {transactions[i].id : i \in SamePattern(transactions, showRuleDialog.payee)}
      ]_vars

\* a bulk apply covers a transaction that an import added at time 2
C7_Witness ==
    \E i \in DOMAIN calls :
        /\ calls[i].op = "bulk"
        /\ <<2, 0>> \in calls[i].ids
        /\ Cardinality(calls[i].ids) = MaxTxns
        /\ \A j \in DOMAIN calls[i].payload : calls[i].payload[j].category = calls[i].category

\* C8: when the save of a bulk categorization fails, the working copy does not show the
\* new category on a matched transaction for which the store does not hold it.
C8_FailedBulkNotShownUnpersisted ==
    [][\A i \in DOMAIN calls :
          (CallFail(i) /\ calls[i].op = "bulk") =>
              \A j \in DOMAIN transactions' :
                  (/\ transactions'[j].id \in calls[i].ids
                   /\ transactions'[j].category = calls[i].category)
                  => /\ transactions'[j].id \in DOMAIN store'
                     /\ store'[transactions'[j].id].category = calls[i].category
      ]_vars

(***************************************************************************)
(* SpecImport: uploads and imports into an empty application               *)
(***************************************************************************)
InitImport ==
    /\ InitApp
    /\ payeeArg = <<>>
    /\ patternRes = NoResult
    /\ IdleRest

NextImport ==
    \/ \E data \in Files :
            now < MaxNow /\ handleFileUpload(data) /\ UNCHANGED pureVars
    \/ \E t \in {now, now + 1} :
            /\ t <= MaxNow
            /\ Len(calls) < MaxImportCalls
            /\ handleMappingComplete(t)
            /\ Len(calls'[Len(calls')].payload) <= MaxTxns
            /\ UNCHANGED pureVars
    \/ \E i \in DOMAIN calls : CallOk(i) /\ UNCHANGED pureVars
    \/ \E i \in DOMAIN calls : CallFail(i) /\ UNCHANGED pureVars
    \/ \E mode \in {"strict", "off"} :
            handleDuplicateDetectionChange(mode) /\ UNCHANGED pureVars

SpecImport == InitImport /\ [][NextImport]_vars

(***************************************************************************)
(* SpecExtract: one call of extractPayeePattern on a payee of ExtractInputs *)
(***************************************************************************)
InitExtract ==
    /\ payeeArg \in ExtractInputs
    /\ patternRes = NoResult
    /\ IdleRest
    /\ InitApp

CallExtract ==
    /\ patternRes = NoResult
    /\ patternRes' = extractPayeePattern(payeeArg)
    /\ UNCHANGED <<payeeArg, ruleVars, taxonomyVars, screenVars>>
    /\ UNCHANGED appVars

NextExtract == CallExtract

SpecExtract == InitExtract /\ [][NextExtract]_vars

(***************************************************************************)
(* Claims about the import (SpecImport)                                    *)
(***************************************************************************)
PendingImports == {calls[k] : k \in {j \in DOMAIN calls : calls[j].op = "import"}}

ThreeFieldMatch(c, i) ==
    \E j \in DOMAIN c.existing :
        /\ c.existing[j].date = c.parsed[i].date
        /\ c.existing[j].payee = c.parsed[i].payee
        /\ c.existing[j].amount = c.parsed[i].amount

\* C1: under the strict policy an import rejects an incoming transaction exactly when
\* a transaction of the working copy has the same date instant, the same payee string
\* and the same amount; the others are accepted (and are what is saved after the
\* working copy), and the reported skipped count is the number of rejected ones.
C1_StrictRejectsIffThreeFieldMatch ==
    \A c \in PendingImports :
        c.policy = "strict" =>
            /\ \A i \in DOMAIN c.parsed :
                    (c.parsed[i] \notin Range(c.newTransactions)) <=> ThreeFieldMatch(c, i)
            /\ Range(c.newTransactions) \subseteq Range(c.parsed)
            /\ Len(c.newTransactions) + c.skipped = Len(c.parsed)
            /\ c.skipped = Cardinality({i \in DOMAIN c.parsed : ThreeFieldMatch(c, i)})
            /\ c.payload = c.existing \o c.newTransactions

\* a strict import in which one row is rejected and another, which agrees with a
\* transaction of the working copy in payee and amount but not in date, is accepted
C1_Witness ==
    \E c \in PendingImports :
        /\ c.policy = "strict"
        /\ c.skipped = 1
        /\ Len(c.newTransactions) = 1
        /\ \E e \in Range(c.existing) :
                /\ e.payee = c.newTransactions[1].payee
                /\ e.amount = c.newTransactions[1].amount
                /\ e.date # c.newTransactions[1].date

\* what handleMappingComplete at time t decides for the rows data under the strict
\* policy when the working copy is working
StrictImport(data, t, working) ==
    LET parsed == Parsed(data, t)
        dup == DuplicateIndices(parsed, working, "strict")
    IN  [incoming |-> Len(parsed), accepted |-> WithoutIndices(parsed, dup),
         skipped |-> Cardinality(dup)]

StrictReconcile(incoming, working) ==
    WithoutIndices(incoming, DuplicateIndices(incoming, working, "strict"))

\* C2: when an import of a batch has completed, importing the identical batch again
\* under the strict policy accepts nothing and skips every transaction of the batch,
\* and importing only the transactions accepted the first time accepts nothing.
C2_ReimportSkipsAll ==
    [][\A i \in DOMAIN calls :
          (CallOk(i) /\ calls[i].op = "import") =>
              /\ \A t \in 0..MaxNow :
                    LET again == StrictImport(calls[i].rawData, t, transactions')
                    IN  /\ again.accepted = <<>>
                        /\ again.skipped = again.incoming
                        /\ again.incoming = Len(calls[i].parsed)
              /\ StrictReconcile(calls[i].newTransactions, transactions') = <<>>]_vars

\* a second import of the same two rows, started after the first completed: both rows
\* are skipped, each matching a transaction the earlier import created from that row
C2_Witness ==
    \E c \in PendingImports :
        /\ c.policy = "strict"
        /\ Len(c.parsed) = 2
        /\ c.newTransactions = <<>>
        /\ c.skipped = 2
        /\ c.existing = transactions
        /\ \A i \in DOMAIN c.parsed :
                \E e \in Range(c.existing) :
                    /\ e.id[2] = c.parsed[i].id[2]
                    /\ e.id[1] < c.parsed[i].id[1]
                    /\ e.date = c.parsed[i].date
                    /\ e.payee = c.parsed[i].payee
                    /\ e.amount = c.parsed[i].amount
                    /\ e.id \in DOMAIN store

\* the amount cell holds numeric content: a digit
HasNumericContent(cell) == \E i \in DOMAIN cell : cell[i] \in Digits

\* the rows of data (0-based) that the claim lets become transactions
ImportableRows(data) ==
    {k - 1 : k \in {j \in DOMAIN data :
                        /\ ~newDate(data[j].date).isNaN
                        /\ HasNumericContent(data[j].amount)
                        /\ ~parseFloat(rawAmount(data[j].amount)).isNaN}}

\* C20: during an import a row becomes a transaction exactly when its date cell parses
\* to a valid date and its amount cell yields a valid number; a row whose amount cell
\* is empty or holds no numeric content is excluded, the other rows are still imported.
C20_RowImportedIffValidDateAndAmount ==
    \A c \in PendingImports :
        {c.parsed[i].id[2] : i \in DOMAIN c.parsed} = ImportableRows(c.rawData)

\* the ids of a list are pairwise distinct
DistinctIds(txns) ==
    \A i, j \in DOMAIN txns : i # j => txns[i].id # txns[j].id

\* C22: after any sequence of imports the transactions of the working copy and of the
\* store have pairwise distinct ids, so saving an import (an upsert keyed by id) never
\* overwrites or removes a record that existed before: each one is still there, unchanged.
C22_DistinctIdsNoOverwrite ==
    /\ DistinctIds(transactions)
    /\ \A c \in PendingImports :
          /\ DistinctIds(c.payload)
          /\ \A i \in DOMAIN c.newTransactions :
                c.newTransactions[i].id \notin DOMAIN store

\* no two records of the store agree in date instant, payee and amount
NoTwins(st) ==
    \A a, b \in DOMAIN st :
        a # b => ~(/\ st[a].date = st[b].date
                   /\ st[a].payee = st[b].payee
                   /\ st[a].amount = st[b].amount)

\* C30: under the strict policy, starting from an empty store, no two stored
\* transactions share date instant, payee and amount after any sequence of imports: a
\* second incoming transaction with the same three fields is dropped also when the
\* first one is an earlier row of the same batch.
C30_StrictStoreHasNoTwins ==
    [][\A i \in DOMAIN calls :
          (/\ CallOk(i)
           /\ calls[i].op = "import"
           /\ calls[i].policy = "strict"
           /\ NoTwins(store)) => NoTwins(store')]_vars

(***************************************************************************)
(* Claims about the inline payee editor (SpecRename)                       *)
(***************************************************************************)
\* the row whose payee is being edited
Edited == Find(transactions, editingPayee)

\* the step is a blur or an Enter of the editor that has saved a rule
RenameSaved ==
    /\ editingPayee # <<>>
    /\ editingPayee' = <<>>
    /\ rules' # rules

\* C21: the rule an inline rename of a transaction with raw payee P creates
\* changes the displayed payee only of transactions whose raw payee is P:
\* every transaction with another raw payee is displayed as before,
\* whatever other rules exist.
C21_RenameTouchesOnlyThatPayee ==
    [][RenameSaved =>
          \A k \in DOMAIN transactions :
              transactions[k].payee # Edited.payee =>
                  applyRenamingRules(transactions[k].payee, rules')
                      = applyRenamingRules(transactions[k].payee, rules)]_vars

\* C28: after an inline rename of a transaction to a new non-empty value v
\* its displayed payee is the trimmed v, also when an earlier rule already
\* rewrites that payee or the transaction was renamed before.
C28_RenamedPayeeIsShown ==
    [][RenameSaved =>
          applyRenamingRules(Edited.payee, rules') = trim(editPayeeValue)]_vars

\* C29: leaving the editor by blur or Enter with the value it was opened
\* with creates no rule, whether or not a rule already renames the payee.
C29_UnchangedValueAddsNoRule ==
    [][(/\ editingPayee # <<>>
        /\ editingPayee' = <<>>
        /\ editPayeeValue = displayPayee(Edited)) => rules' = rules]_vars

(***************************************************************************)
(* Claims about overlapping saves (SpecRace)                               *)
(***************************************************************************)
StoreHasWorkingCopy ==
    \A k \in DOMAIN transactions :
        /\ transactions[k].id \in DOMAIN store
        /\ store[transactions[k].id].category = transactions[k].category

\* C25: whenever no persistence call is in flight and none has failed, the
\* store holds every transaction of the working copy with the same category,
\* also when two saves issued one after the other complete in the opposite
\* order.
C25_StoreFollowsWorkingCopy ==
    (calls = <<>> /\ rejected = {}) => StoreHasWorkingCopy

\* the working copy after the step has every transaction it had before it,
\* as it was
WorkingCopyKept ==
    \A k \in DOMAIN transactions :
        \E j \in DOMAIN transactions' : transactions'[j] = transactions[k]

\* C26: the completion of an import's save loses nothing of the working copy:
\* neither a change made to a transaction while the save was in flight, nor
\* the transactions another import has added in between.
C26_ImportCompletionKeepsWorkingCopy ==
    [][\A i \in DOMAIN calls :
          (CallOk(i) /\ calls[i].op = "import") => WorkingCopyKept]_vars

(***************************************************************************)
(* Claims about the start-up (SpecStartup, SpecStartupFair)                *)
(***************************************************************************)

\* C23: a failure of a persistence call of the core reaches the caller as the
\* failure of the operation: a read of all transactions that failed (at
\* start-up or after a storage switch) has rejected loadData, it was not
\* caught and dropped.
C23_FailureReachesCaller ==
    loadFailed => "loadData" \in rejected

\* C27: start-up always eventually leaves the loading state, also when
\* opening IndexedDB fails, the saved storage settings cannot be read, or the
\* first read of the transactions fails.
C27_StartupLeavesLoading ==
    <>(~loading)

(***************************************************************************)
(* Claims about the storage backends (SpecBackends)                        *)
(***************************************************************************)
\* null and undefined both stand for "no value"
SameValue(a, b) == a = b \/ ({a, b} \subseteq {Undefined, Null})

SameRecord(a, b) ==
    /\ a.id = b.id
    /\ a.date = b.date
    /\ a.payee = b.payee
    /\ a.amount = b.amount
    /\ a.tags = b.tags
    /\ SameValue(Get(a, "category"), Get(b, "category"))
    /\ SameValue(Get(a, "currency"), Get(b, "currency"))
    /\ SameValue(Get(a, "isSaving"), Get(b, "isSaving"))

SameRecords(s, t) ==
    /\ \A i \in DOMAIN s : \E j \in DOMAIN t : SameRecord(s[i], t[j])
    /\ \A j \in DOMAIN t : \E i \in DOMAIN s : SameRecord(s[i], t[j])

SavedToBoth ==
    /\ transactions # <<>>
    /\ store = PutAll(EmptyStore, transactions)
    /\ db = backendSaveTransactions(EmptyTable, transactions)

\* C24: the two backends are interchangeable: a list saved and read back
\* gives the same set of records, with the same id, date, payee, amount,
\* category, tags, currency and isSaving, under IndexedDB and under the
\* backend service.
C24_BackendsInterchangeable ==
    SavedToBoth => SameRecords(getTransactions(store), backendGetTransactions(db))

(***************************************************************************)
(* Claims about the category taxonomy (SpecStartup)                       *)
(***************************************************************************)
\* the positions of the nodes below a list of nodes: the child indices from a root down
RECURSIVE PathsBelow(_, _)
PathsBelow(nodes, prefix) ==
    UNION {{prefix \o <<i>>} \cup PathsBelow(nodes[i].children, prefix \o <<i>>) :
              i \in DOMAIN nodes}

RECURSIVE NodeAt(_, _)
NodeAt(nodes, path) ==
    IF Len(path) = 1 THEN nodes[path[1]]
    ELSE NodeAt(nodes[path[1]].children, Tail(path))

SourcePaths == PathsBelow(yamlSource.categories, <<>>)
SourceNode(path) == NodeAt(yamlSource.categories, path)
PathOf(name) == CHOOSE p \in SourcePaths : SourceNode(p).name = name
Enclosing(path) == SubSeq(path, 1, Len(path) - 1)

\* init has run and the source was a document with a list of categories
LoadedDocument == ~loading /\ yamlSource.outcome = "document"

CategoryNamed(name) == CHOOSE c \in Range(categories) : c.name = name

\* C13: in the loader's output every category's color is its own color when the source
\* gives one, otherwise the resolved color of its parent, otherwise #6b7280; its
\* isSubscription is its own flag when given (false included), otherwise its parent's
\* resolved flag, otherwise false; so a category without a flag below a subscription
\* ancestor, with no flag in between, is a subscription category at any depth.
C13_ColorAndFlagInherited ==
    LoadedDocument =>
        \A i \in DOMAIN categories :
            LET c == categories[i]
                path == PathOf(c.name)
                node == SourceNode(path)
            IN  /\ c.color = IF node.color # Undefined THEN node.color
                             ELSE IF c.parent # Undefined THEN CategoryNamed(c.parent).color
                             ELSE "#6b7280"
                /\ c.isSubscription =
                        IF node.isSubscription # Undefined THEN node.isSubscription
                        ELSE IF c.parent # Undefined
                             THEN CategoryNamed(c.parent).isSubscription
                        ELSE "false"
                /\ (\E k \in 1..(Len(path) - 1) :
                        /\ SourceNode(SubSeq(path, 1, k)).isSubscription = "true"
                        /\ \A j \in (k + 1)..Len(path) :
                              SourceNode(SubSeq(path, 1, j)).isSubscription = Undefined)
                   => c.isSubscription = "true"

\* only the root gives the flag, no node of its chain gives a color: the category of
\* level 3 is a gray subscription category, and one below an explicit false is none
C13_Witness ==
    /\ LoadedDocument
    /\ yamlSource.categories # <<>>
    /\ yamlSource.categories[1].isSubscription = "true"
    /\ \A j \in 1..4 :
            LET node == SourceNode([k \in 1..j |-> 1])
            IN  node.color = Undefined /\ (j > 1 => node.isSubscription = Undefined)
    /\ CategoryNamed("Netflix").isSubscription = "true"
    /\ CategoryNamed("Netflix").color = "#6b7280"
    /\ CategoryNamed("Fine Dining").color = "#ef4444"
    /\ CategoryNamed("Fine Dining").isSubscription = "false"

\* p comes before q in the pre-order: p encloses q, or p branches off to the left
PreOrderBefore(p, q) ==
    \/ Len(p) < Len(q) /\ SubSeq(q, 1, Len(p)) = p
    \/ \E k \in 1..Min(Len(p), Len(q)) :
            /\ SubSeq(p, 1, k - 1) = SubSeq(q, 1, k - 1)
            /\ p[k] < q[k]

\* the nodes of level 0 to 3
RetainedPaths == {p \in SourcePaths : Len(p) - 1 <= 3}

\* C14: flattenCategories returns the pre-order flattening of the source cut below
\* level 3: every node of level 0 to 3 exactly once, immediately followed by its whole
\* retained subtree, with parent the enclosing node's name (undefined for roots);
\* deeper nodes are dropped and no other node is.
C14_PreOrderCutBelowLevel3 ==
    LoadedDocument =>
        /\ Len(categories) = Cardinality(RetainedPaths)
        /\ \A p \in RetainedPaths :
              LET i == 1 + Cardinality({q \in RetainedPaths : PreOrderBefore(q, p)})
                  below == {q \in RetainedPaths :
                               Len(p) < Len(q) /\ SubSeq(q, 1, Len(p)) = p}
              IN  /\ categories[i].name = SourceNode(p).name
                  /\ categories[i].parent =
                        IF Len(p) = 1 THEN Undefined ELSE SourceNode(Enclosing(p)).name
                  /\ {categories[j].name : j \in (i + 1)..(i + Cardinality(below))}
                        = {SourceNode(q).name : q \in below}

\* a source with a node of level 4: the list stops at the node of level 3, the next
\* entry is the sibling that follows the subtree, and the second tree comes after it
C14_Witness ==
    /\ LoadedDocument
    /\ \E p \in SourcePaths : Len(p) = 5 /\ SourceNode(p).name = "Netflix 4K"
    /\ [i \in DOMAIN categories |-> categories[i].name] =
          <<"Subscriptions", "Streaming Services", "Video Streaming", "Netflix",
            "Music Streaming", "Food & Dining", "Restaurants", "Fine Dining", "Groceries">>
    /\ categories[5].parent = "Subscriptions"
    /\ categories[6].parent = Undefined

\* the source has no list of categories that can be used
NoUsableList == yamlSource.outcome \in FailureOutcomes \/ yamlSource.categories = <<>>

\* C15: loadCategoriesFromYaml never rejects; whenever fetching or parsing the source
\* fails (unreachable, malformed, no usable categories list) it returns the default
\* taxonomy, so the application never has zero categories after loading.
C15_FailSoftNeverEmpty ==
    ~loading =>
        /\ NoUsableList => categories = getDefaultCategories
        /\ categories # <<>>

RECURSIVE DescendantsInTurn(_)
DescendantsInTurn(children) ==
    IF children = <<>> THEN <<>>
    ELSE getCategoryChildren(Head(children).name, categories)
         \o DescendantsInTurn(Tail(children))

ChildNames(name) ==
    {c.name : c \in Range(getCategoryChildren(name, categories))}

RECURSIVE SumOfAbs(_)
SumOfAbs(txns) ==
    IF txns = <<>> THEN 0
    ELSE (IF Head(txns).amount < 0 THEN 0 - Head(txns).amount ELSE Head(txns).amount)
         + SumOfAbs(Tail(txns))

OnlyCategorySelected(R) ==
    /\ selectedCategories = <<R>>
    /\ selectedPayees = <<>>
    /\ dateRange = [start |-> "", end |-> ""]

ResolvedSubscription(name) ==
    LET path == PathOf(name)
        given == {k \in 1..Len(path) :
                     SourceNode(SubSeq(path, 1, k)).isSubscription # Undefined}
    IN  /\ given # {}
        /\ SourceNode(SubSeq(path, 1, CHOOSE k \in given : \A j \in given : j <= k))
              .isSubscription = "true"

\* C19: the subscription total is the sum of abs(amount) over the filtered transactions
\* with amount < 0 whose category is in the category list with resolved isSubscription
\* true, inherited flags included; transactions without category or with a category
\* missing from the taxonomy contribute nothing, and no transactions give 0.
C19_SubscriptionTotal ==
    /\ subscriptionSpending =
          SumOfAbs(SelectSeq(filteredTransactions,
                      LAMBDA t : /\ t.amount < 0
                                 /\ t.category # Undefined
                                 /\ \E i \in DOMAIN categories :
                                        categories[i].name = t.category
                                 /\ ResolvedSubscription(t.category)))
    /\ transactions = <<>> => subscriptionSpending = 0

\* the date filter leaves two of three transactions: the spending in a category that
\* only inherits the flag is counted, the spending in a category missing from the
\* taxonomy is not, and the subscription spending before the start date is left out
C19_Witness ==
    /\ dateRange = [start |-> "2024-01-20", end |-> ""]
    /\ Len(transactions) = 3
    /\ Len(filteredTransactions) = 2
    /\ \E i \in DOMAIN transactions :
            /\ transactions[i].category = "Netflix"
            /\ ResolvedSubscription("Netflix")
    /\ \E i \in DOMAIN filteredTransactions :
            /\ filteredTransactions[i].category = "Video Streaming"
            /\ SourceNode(PathOf("Video Streaming")).isSubscription = Undefined
    /\ \E i \in DOMAIN filteredTransactions :
            filteredTransactions[i].category = "Removed Category"
    /\ subscriptionSpending = 250
    /\ totalSpending = 375

(***************************************************************************)
(* Claims about applyRenamingRules (SpecRules)                             *)
(***************************************************************************)
Renamed == renamed # NoResult

\* every occurrence of the text pat in s, compared without regard to case, replaced by
\* repl, from left to right
RECURSIVE ReplaceTextFrom(_, _, _, _)
ReplaceTextFrom(s, pat, repl, i) ==
    IF i > Len(s) THEN <<>>
    ELSE IF /\ i + Len(pat) - 1 <= Len(s)
            /\ toLowerCase(SubSeq(s, i, i + Len(pat) - 1)) = toLowerCase(pat)
    THEN repl \o ReplaceTextFrom(s, pat, repl, i + Len(pat))
    ELSE <<s[i]>> \o ReplaceTextFrom(s, pat, repl, i + 1)

\* every match of the expression re in s replaced by the text repl
RECURSIVE ReplaceMatchesFrom(_, _, _, _)
ReplaceMatchesFrom(s, re, repl, pos) ==
    LET m == Exec(re, s, pos)
    IN  IF m.start = 0 THEN SubSeq(s, pos, Len(s))
        ELSE SubSeq(s, pos, m.start - 1) \o repl \o
             (IF m.end > m.start THEN ReplaceMatchesFrom(s, re, repl, m.end)
              ELSE IF m.start <= Len(s)
                   THEN <<s[m.start]>> \o ReplaceMatchesFrom(s, re, repl, m.start + 1)
                   ELSE <<>>)

RuleEffect(s, rule) ==
    IF ~rule.enabled THEN s
    ELSE IF ~rule.isRegex THEN ReplaceTextFrom(s, rule.pattern, rule.replacement, 1)
    ELSE IF ~RegExp(rule.pattern, TRUE).ok THEN s
    ELSE ReplaceMatchesFrom(s, RegExp(rule.pattern, TRUE), rule.replacement, 1)

RECURSIVE FoldRules(_, _)
FoldRules(s, rs) == IF rs = <<>> THEN s ELSE FoldRules(RuleEffect(s, Head(rs)), Tail(rs))

\* C11: applyRenamingRules(payee, rules) is the fold of the rules, in list order, over
\* the payee, trimmed at the end: a disabled rule changes nothing, an enabled rule
\* replaces every case-insensitive match of its pattern (the literal text when isRegex
\* is false) by its replacement; the enabled regex rule ^JOES GRILL.* with replacement
\* Joe's Grill maps "JOES GRILL &/25-11-17" to "Joe's Grill".
C11_FoldOfRulesInOrder ==
    Renamed =>
        /\ renamed = trim(FoldRules(payeeArg, rulesArg))
        /\ (payeeArg = JoesGrillAmpSlashDate /\ rulesArg = <<RuleJoe>>)
                => renamed = JoesGrillRenamed

\* C12: an enabled regex rule whose pattern does not compile does not make
\* applyRenamingRules fail: the result is the result for the list without that rule.
C12_BadPatternIsSkipped ==
    Renamed =>
        \A k \in DOMAIN rulesArg :
            (/\ rulesArg[k].enabled /\ rulesArg[k].isRegex
             /\ ~RegExp(rulesArg[k].pattern, TRUE).ok)
            => renamed = applyRenamingRules(payeeArg, RemoveAt(rulesArg, k))

\* a non-compiling rule between two rules that both take effect
C12_Witness ==
    /\ Renamed
    /\ Len(rulesArg) = 3
    /\ rulesArg[2] = RuleBad
    /\ renamed # applyRenamingRules(payeeArg, <<rulesArg[1]>>)
    /\ renamed # applyRenamingRules(payeeArg, <<rulesArg[3]>>)
    /\ renamed = applyRenamingRules(payeeArg, <<rulesArg[1], rulesArg[3]>>)

(***************************************************************************)
(* Claims about extractPayeePattern (SpecExtract)                          *)
(***************************************************************************)
Extracted == patternRes # NoResult

\* C9: extractPayeePattern("JOES GRILL &/25-11-17") is "JOES GRILL" (the trailing date
\* goes together with the separator "&/"), and a payee without a trailing date, such
\* as "JOES GRILL DOWNTOWN", is returned unchanged apart from trimming.
C9_AmpSlashDateAndNoDate ==
    Extracted =>
        /\ payeeArg = JoesGrillAmpSlashDate => patternRes = JoesGrill
        /\ \A l \in Leaders, b \in BaseTexts, t \in Trailers :
                payeeArg = l \o b \o <<" ", "&", "/">> \o DateDMY2 \o t
                    => patternRes = trim(b)
        /\ \A l \in Leaders, b \in {JoesGrill, JoesGrillDowntown, <<"A", "B">>},
              t \in Trailers :
                payeeArg = l \o b \o t => patternRes = trim(payeeArg)

\* C10: a payee made of a base text, whitespace and a trailing date of one of the
\* shapes DD-MM-YY, DD-MM-YYYY, YYYY-MM-DD, DD/MM/YY, DD/MM/YYYY is mapped to the
\* trimmed base text, whichever shape the date has.
C10_EveryDateShapeStripped ==
    Extracted =>
        \A b \in BaseTexts, w \in {<<" ">>, <<" ", " ">>, <<"\t">>}, d \in DateShapes :
            payeeArg = b \o w \o d => patternRes = trim(b)

====
